---- MODULE Spec2Model ----
(***************************************************************************)
(* Verification model of the Lexical seed pipelines:                       *)
(*   - improve_seed_stochastic.py  (the "stochastic" pipeline, SpecS)      *)
(*   - improve_sentences_inplace.py (the "in-place" pipeline, SpecI)       *)
(* Files on disk, the in-memory state of main() and the thread-pool        *)
(* futures are the state; every file operation is one step, and the        *)
(* process may crash between any two steps.                                *)
(***************************************************************************)
EXTENDS Integers, Sequences, FiniteSets, TLC

\* ---------------------------------------------------------------- bounds
NRows == 2
MaxRuns == 2
MaxCap == 1
MaxBatch == 2
MaxChunk == 2

\* ------------------------------------------------------------- utilities
Min(a, b) == IF a < b THEN a ELSE b

SeqToSet(s) == {s[i] : i \in DOMAIN s}

Take(s, n) == SubSeq(s, 1, Min(n, Len(s)))

\* a file is absent or holds a JSON array
NoFile == [exists |-> FALSE, data |-> <<>>]

File(d) == [exists |-> TRUE, data |-> d]

\* ------------------------------------------------------ abstract payloads
\* A generator call either raises ("err") or returns one candidate payload.
\* The flags of a candidate are the verdicts the pure checks give on it.
Candidate ==
  [ A   |-> [skeletons |-> <<1, 2, 3>>, quality_ok |-> TRUE,  blocked |-> FALSE, synonyms_ok |-> TRUE,  cloze_ok |-> TRUE],
    B   |-> [skeletons |-> <<4, 5, 6>>, quality_ok |-> TRUE,  blocked |-> FALSE, synonyms_ok |-> TRUE,  cloze_ok |-> TRUE],
    dup |-> [skeletons |-> <<7, 7, 7>>, quality_ok |-> FALSE, blocked |-> FALSE, synonyms_ok |-> TRUE,  cloze_ok |-> TRUE] ]

CandidateNames == {"A", "B", "dup"}

\* responses drawn for the workers of the pipeline: a generator error or a
\* well-formed candidate (which the skeleton cap may still reject)
Responses == {"err", "A", "B"}

\* skeletons of the sentences a row had in the pristine input: one private
\* skeleton triple per row
OrigSkeletons(key) == <<10 * key + 1, 10 * key + 2, 10 * key + 3>>

Skeletons == (1..7) \cup UNION {SeqToSet(OrigSkeletons(k)) : k \in 1..(NRows + 1)}

\* candidate_skeletons applied to the current sentences of a row
RowSkeletons(row) ==
  IF row.sentences = "orig" THEN OrigSkeletons(row.key) ELSE Candidate[row.sentences].skeletons

ZeroCounter == [s \in Skeletons |-> 0]

\* an increment by two for each occurrence
CounterAddTwice(counter, skels) ==
  [s \in Skeletons |-> counter[s] + 2 * Cardinality({j \in DOMAIN skels : skels[j] = s})]

\* for skeleton in skeletons: skeleton_counter[skeleton] += 1
CounterAdd(counter, skels) ==
  [s \in Skeletons |-> counter[s] + Cardinality({j \in DOMAIN skels : skels[j] = s})]

\* ------------------------------------------------------------- variables
VARIABLES
  args,              \* parsed command line of the current behaviour
  input_seed,        \* canonical seed file (args.input_seed)
  input_roots,       \* canonical roots file
  output_seed,       \* staged output seed file
  output_roots,      \* staged output roots file
  partial_seed,      \* partial snapshot file
  seed_backup,       \* timestamped backup of the canonical seed
  roots_backup,      \* timestamped backup of the canonical roots
  checkpoint,        \* the ledger: sequence of records
  pc,                \* position of main()
  exit_code,         \* result of the last run ("none" while none ended)
  rows,              \* in-memory row array
  processed_ids,
  pending_ids,
  skeleton_counter,
  cursor,
  batch_ids,
  states,            \* per-row attempt state of the current batch
  unresolved,
  tier,              \* "local" or "cloud"
  round,             \* index of the attempt wave within the tier
  running,           \* futures submitted to the pool and not yet finished
  results,           \* results dict filled by as_completed
  ci,                \* loop index (exclusion loop, commit loop)
  processed_now,
  resequenced_rows,
  remapped_roots,
  \* in-place pipeline only
  window_ids,
  run_processed,
  chunk_counter,
  total_rewritten_total,
  total_fallback_total,
  processed_this_run_ids,
  stop_code_window,
  sampled_ids,
  failed_ids,
  qa_unresolved,
  verify_ok,         \* the variable "ok" of main()
  \* history variables
  process_item_calls, \* number of process_item calls made by the run
  run_no,            \* number of runs started
  ledger_at_start,   \* length of the ledger when the run started
  rows_at_start,     \* row array as loaded by the run
  counter_at_batch,  \* skeleton counter when the batch started
  hist,              \* responses received by each row in the current batch
  committed,         \* key -> content last committed with a "changed" record
  \* library functions checked on their own
  frame              \* stack frame of the function under test: arguments, locals, position

filevars == <<input_seed, input_roots, output_seed, output_roots, partial_seed,
              seed_backup, roots_backup, checkpoint>>

memvars == <<rows, processed_ids, pending_ids, skeleton_counter, cursor, batch_ids,
             states, unresolved, tier, round, running, results, ci, processed_now,
             resequenced_rows, remapped_roots>>

ipvars == <<window_ids, run_processed, chunk_counter, total_rewritten_total,
            total_fallback_total, processed_this_run_ids, stop_code_window, sampled_ids,
            failed_ids, qa_unresolved, verify_ok, process_item_calls>>

histvars == <<run_no, ledger_at_start, rows_at_start, counter_at_batch, hist, committed>>

\* what no action of a pipeline run assigns
fixed == <<args, frame>>

vars == <<fixed, filevars, pc, exit_code, memvars, ipvars, histvars>>

\* ------------------------------------------------------------ pure parts
\* read_checkpoint: the ids that have a record
read_checkpoint(ledger) == {ledger[i].id : i \in DOMAIN ledger}

\* id_to_index: the last row carrying an id wins
id_to_index(rs, id) ==
  CHOOSE i \in DOMAIN rs : rs[i].id = id /\ \A j \in DOMAIN rs : rs[j].id = id => j <= i

RowIds(rs) == {rs[i].id : i \in DOMAIN rs}

\* an id that is not an integer (a string, null, a missing key) is kept as
\* NotInt; isinstance(x, int) is IsInt(x)
NotInt == 0

IsInt(x) == x # NotInt

\* mutant: the processed ids are not filtered out of the pending list
PendingOf_nofilter(rs, processed, limit) ==
  LET ids == [i \in DOMAIN rs |-> rs[i].id]
  IN IF limit = 0 THEN ids ELSE Take(ids, limit)

\* list[:n] of Python: the first n entries, or all but the last -n
slice_to(list, n) ==
  IF n >= 0 THEN SubSeq(list, 1, Min(n, Len(list)))
  ELSE SubSeq(list, 1, IF Len(list) + n > 0 THEN Len(list) + n ELSE 0)

\* mutant: an id that several rows carry keeps the place of its first row
pending_ids_first(rs, processed, limit) ==
  LET at == SelectSeq([i \in DOMAIN rs |-> i],
                      LAMBDA i : /\ IsInt(rs[i].id)
                                 /\ \A j \in 1..(i - 1) : rs[j].id # rs[i].id
                                 /\ rs[i].id \notin processed)
      all == [k \in DOMAIN at |-> rs[at[k]].id]
  IN IF limit = <<>> THEN all ELSE slice_to(all, limit[1])

\* the pending list of main(): the keys of id_to_index (integer ids, each
\* once) that are not processed, sorted by the index id_to_index gives them,
\* cut by --limit when it is given (<<>> is None, <<n>> is n)
pending_ids_of(rs, processed, limit) ==
  LET at == SelectSeq([i \in DOMAIN rs |-> i],
                      LAMBDA i : /\ IsInt(rs[i].id)
                                 /\ id_to_index(rs, rs[i].id) = i
                                 /\ rs[i].id \notin processed)
      all == [k \in DOMAIN at |-> rs[at[k]].id]
  IN IF limit = <<>> THEN all ELSE slice_to(all, limit[1])

\* pending computation of main(): unprocessed ids in row order, cut by
\* --limit; the command lines of the pipelines write "no limit" as 0
PendingOf(rs, processed, limit) ==
  pending_ids_of(rs, processed, IF limit = 0 THEN <<>> ELSE <<limit>>)

\* counter seeding of main(): scan the sentences of the non-pending rows
SeedCounter(rs, pending) ==
  [s \in Skeletons |->
     Cardinality({p \in (DOMAIN rs) \X (1..3) :
                    /\ rs[p[1]].id \notin SeqToSet(pending)
                    /\ RowSkeletons(rs[p[1]])[p[2]] = s})]

\* a cap test that rejects a skeleton one occurrence early
violates_cap_early(skeletons, counter, cap) ==
  LET offenders == SelectSeq(skeletons, LAMBDA s : counter[s] + 1 >= cap)
  IN [violates |-> Len(offenders) > 0, offenders |-> offenders, skeletons |-> skeletons]

violates_global_skeleton_cap(skeletons, counter, cap) ==
  LET offenders == SelectSeq(skeletons, LAMBDA s : counter[s] + 1 > cap)
  IN [violates |-> Len(offenders) > 0, offenders |-> offenders, skeletons |-> skeletons]

\* process_candidate: the checks in source order, first failure returns
process_candidate(row, name, counter, cap) ==
  LET c == Candidate[name]
      v == violates_global_skeleton_cap(c.skeletons, counter, cap)
      fail(code) == [ok |-> FALSE, updated |-> row, errors |-> <<code>>, skeletons |-> <<>>]
  IN IF ~c.quality_ok THEN fail("near_duplicate_sentences")
     ELSE IF c.blocked THEN fail("sentence_blocked")
     ELSE IF v.violates THEN fail("global_skeleton_cap_exceeded")
     ELSE IF ~c.synonyms_ok THEN fail("synonyms_empty_after_cleanup")
     ELSE IF ~c.cloze_ok THEN fail("cloze_missing")
     ELSE [ok |-> TRUE,
           updated |-> [row EXCEPT !.sentences = name, !.synonym = name],
           errors |-> <<>>,
           skeletons |-> c.skeletons]

\* make_checkpoint_record: the ledger line.  reason_codes, error_codes and the
\* timestamp are written but never read back by any run, and are left out of
\* the line.
make_checkpoint_record(row_id, status, attempts_local, attempts_cloud, changed, error_codes) ==
  [id |-> row_id, status |-> status, attempts_local |-> attempts_local,
   attempts_cloud |-> attempts_cloud, changed |-> changed]

\* a resequencing that numbers the rows from 0
resequence_rows_from_zero(rs) ==
  [remapped |-> [i \in DOMAIN rs |-> [rs[i] EXCEPT !.id = i - 1]],
   id_map   |-> [old \in {x \in RowIds(rs) : IsInt(x)} |-> id_to_index(rs, old) - 1]]

\* resequence_rows: dense ids 1..N in row order, and the old -> new id map
resequence_rows(rs) ==
  [remapped |-> [i \in DOMAIN rs |-> [rs[i] EXCEPT !.id = i]],
   id_map   |-> [old \in {x \in RowIds(rs) : IsInt(x)} |-> id_to_index(rs, old)]]

RECURSIVE RemapIds_keep_dups(_, _, _)
\* mutant: an id that is mapped twice is listed twice
RemapIds_keep_dups(word_ids, id_map, seen) ==
  IF word_ids = <<>> THEN <<>>
  ELSE LET w == Head(word_ids)
       IN IF ~IsInt(w) \/ w \notin DOMAIN id_map
          THEN RemapIds_keep_dups(Tail(word_ids), id_map, seen)
          ELSE <<id_map[w]>> \o RemapIds_keep_dups(Tail(word_ids), id_map, seen)

RECURSIVE RemapIds(_, _, _)
\* inner loop of remap_roots_word_ids: map, drop unmapped, drop duplicates
RemapIds(word_ids, id_map, seen) ==
  IF word_ids = <<>> THEN <<>>
  ELSE LET w == Head(word_ids)
       IN IF ~IsInt(w) \/ w \notin DOMAIN id_map \/ id_map[w] \in seen
          THEN RemapIds(Tail(word_ids), id_map, seen)
          ELSE <<id_map[w]>> \o RemapIds(Tail(word_ids), id_map, seen \cup {id_map[w]})

\* a remap that keeps the roots left without ids
remap_roots_word_ids_keep_empty(roots, id_map) ==
  [i \in DOMAIN roots |->
     [roots[i] EXCEPT !.word_ids = RemapIds(roots[i].word_ids, id_map, {})]]

remap_roots_word_ids(roots, id_map) ==
  LET mapped == [i \in DOMAIN roots |->
                   [roots[i] EXCEPT !.word_ids = RemapIds(roots[i].word_ids, id_map, {})]]
  IN SelectSeq(mapped, LAMBDA r : r.word_ids # <<>>)

\* per-row checks of audit_rows on the current content of a row
RowContentOk(row) ==
  IF row.sentences = "orig" THEN row.ok
  ELSE LET c == Candidate[row.sentences]
       IN c.quality_ok /\ ~c.blocked /\ c.synonyms_ok /\ c.cloze_ok

\* audit_rows: every row passes its checks and the recomputed skeleton
\* counts stay within the cap
audit_rows(rs, cap) ==
  /\ \A i \in DOMAIN rs : ~rs[i].sens /\ RowContentOk(rs[i])
  /\ \A s \in Skeletons : SeedCounter(rs, <<>>)[s] <= cap

\* audit_roots: no root is left without word ids, every word id is an
\* integer and the id of a row, and no root lists a word id twice
audit_roots(roots, rs) ==
  \A i \in DOMAIN roots :
    /\ roots[i].word_ids # <<>>
    /\ \A j \in DOMAIN roots[i].word_ids :
         /\ IsInt(roots[i].word_ids[j])
         /\ roots[i].word_ids[j] \in {x \in RowIds(rs) : IsInt(x)}
         /\ \A k \in DOMAIN roots[i].word_ids :
              roots[i].word_ids[k] = roots[i].word_ids[j] => k = j

\* ------------------------------------------------------- initial states
\* the pristine seed: NRows rows, ids dense (1..N) or shifted (2..N+1);
\* at most the first row has a sensitive lemma, at most the last row has
\* sentences that do not pass the audit
InitialRows(shift, sens1, okN) ==
  [i \in 1..NRows |->
     [id |-> i + shift, key |-> i, sens |-> (sens1 /\ i = 1), ok |-> (okN \/ i < NRows),
      sentences |-> "orig", synonym |-> "orig"]]

InitialRoots(shift) ==
  << [root_id |-> 1, word_ids |-> <<1 + shift, NRows + shift, 1 + shift>>],
     [root_id |-> 2, word_ids |-> <<NRows + 5>>] >>

\* command lines: the smallest and the largest batch size; a dry run, or
\* --apply together with --backup (which promotes the same files after two
\* more copies)
ArgsS ==
  {a \in [batch_size : {1, MaxBatch}, chunk_size : {MaxChunk}, local_retries : {1},
          cloud_retries : {1}, limit : {0, 1}, global_skeleton_cap : {MaxCap},
          apply : BOOLEAN, backup : BOOLEAN] : a.backup = a.apply}

\* pristine inputs: <<id shift, first row sensitive, last row passes the audit>>
Scenarios == {<<0, FALSE, TRUE>>, <<1, FALSE, TRUE>>, <<0, TRUE, TRUE>>, <<0, FALSE, FALSE>>}

BlankState == [accepted |-> FALSE, local_attempts |-> 0, cloud_attempts |-> 0,
               error_codes |-> <<>>, candidate |-> <<>>, skeletons |-> <<>>]

\* no library function is being checked on its own
NoFrame == [fn |-> "none"]

MemInit ==
  /\ rows = <<>>
  /\ processed_ids = {}
  /\ pending_ids = <<>>
  /\ skeleton_counter = ZeroCounter
  /\ cursor = 1
  /\ batch_ids = <<>>
  /\ states = <<>>
  /\ unresolved = <<>>
  /\ tier = "local"
  /\ round = 0
  /\ running = {}
  /\ results = <<>>
  /\ ci = 1
  /\ processed_now = 0
  /\ resequenced_rows = <<>>
  /\ remapped_roots = <<>>

IpInit ==
  /\ window_ids = <<>>
  /\ run_processed = 0
  /\ chunk_counter = 0
  /\ total_rewritten_total = 0
  /\ total_fallback_total = 0
  /\ processed_this_run_ids = {}
  /\ stop_code_window = "none"
  /\ sampled_ids = <<>>
  /\ failed_ids = <<>>
  /\ qa_unresolved = 0
  /\ verify_ok = TRUE
  /\ process_item_calls = 0

InitS ==
  /\ args \in ArgsS
  /\ \E sc \in Scenarios :
       /\ input_seed = File(InitialRows(sc[1], sc[2], sc[3]))
       /\ input_roots = File(InitialRoots(sc[1]))
  /\ output_seed = NoFile
  /\ output_roots = NoFile
  /\ partial_seed = NoFile
  /\ seed_backup = NoFile
  /\ roots_backup = NoFile
  /\ checkpoint = <<>>
  /\ pc = "idle"
  /\ exit_code = "none"
  /\ MemInit
  /\ IpInit
  /\ run_no = 0
  /\ ledger_at_start = 0
  /\ rows_at_start = <<>>
  /\ counter_at_batch = ZeroCounter
  /\ hist = <<>>
  /\ committed = <<>>
  /\ frame = NoFrame

\* ------------------------------------------- stochastic pipeline: main()
MemReset ==
  /\ rows' = <<>>
  /\ processed_ids' = {}
  /\ pending_ids' = <<>>
  /\ skeleton_counter' = ZeroCounter
  /\ cursor' = 1
  /\ batch_ids' = <<>>
  /\ states' = <<>>
  /\ unresolved' = <<>>
  /\ tier' = "local"
  /\ round' = 0
  /\ running' = {}
  /\ results' = <<>>
  /\ ci' = 1
  /\ processed_now' = 0
  /\ resequenced_rows' = <<>>
  /\ remapped_roots' = <<>>
  /\ hist' = <<>>
  /\ rows_at_start' = <<>>
  /\ counter_at_batch' = ZeroCounter

\* return <code> from main(): the process ends, its memory is gone
Exit(code) ==
  /\ pc' = "idle"
  /\ exit_code' = code
  /\ MemReset

\* resume snapshot selection: the file a run started now would load
\* a resume that falls back to the pristine input
ResumeSnapshot_input ==
  IF read_checkpoint(checkpoint) = {} THEN input_seed
  ELSE IF partial_seed.exists THEN partial_seed
  ELSE input_seed

ResumeSnapshot ==
  IF read_checkpoint(checkpoint) = {} THEN input_seed
  ELSE IF partial_seed.exists THEN partial_seed
  ELSE IF output_seed.exists THEN output_seed
  ELSE NoFile

\* main(), up to the loading of the rows
StartRun ==
  /\ pc = "idle"
  /\ run_no < MaxRuns
  /\ run_no' = run_no + 1
  /\ ledger_at_start' = Len(checkpoint)
  /\ IF ~ResumeSnapshot.exists
     THEN Exit("1")
     ELSE /\ rows' = ResumeSnapshot.data
          /\ rows_at_start' = ResumeSnapshot.data
          /\ processed_ids' = read_checkpoint(checkpoint)
          /\ pc' = "exclude"
          /\ ci' = 1
          /\ exit_code' = "running"
          /\ UNCHANGED <<pending_ids, skeleton_counter, cursor, batch_ids, states, unresolved,
                         tier, round, running, results, processed_now, resequenced_rows,
                         remapped_roots, hist, counter_at_batch>>
  /\ UNCHANGED <<ipvars, fixed, filevars, committed>>

\* one iteration of the sensitive-exclusion loop
ExcludeRow ==
  /\ pc = "exclude"
  /\ ci <= Len(rows)
  /\ LET row == rows[ci]
     IN IF row.sens /\ row.id \notin processed_ids
        THEN /\ checkpoint' = Append(checkpoint,
                    make_checkpoint_record(row.id, "excluded_sensitive", 0, 0, FALSE, <<>>))
             /\ committed' = Append(committed, [key |-> row.key, sentences |-> row.sentences])
             /\ processed_ids' = processed_ids \cup {row.id}
        ELSE UNCHANGED <<checkpoint, committed, processed_ids>>
  /\ ci' = ci + 1
  /\ UNCHANGED <<ipvars, fixed, input_seed, input_roots, output_seed, output_roots, partial_seed,
                 seed_backup, roots_backup, pc, exit_code, rows, pending_ids, skeleton_counter,
                 cursor, batch_ids, states, unresolved, tier, round, running, results,
                 processed_now, resequenced_rows, remapped_roots, run_no, ledger_at_start,
                 rows_at_start, counter_at_batch, hist>>

\* mutant: the rows with a sensitive lemma stay in the row array
filtered_rows_all(rs) == rs

\* filtered_rows of main(): the rows whose lemma is not sensitive
filtered_rows(rs) == SelectSeq(rs, LAMBDA r : ~r.sens)

\* end of the exclusion loop: filtered rows, pending ids, counter seeding
ComputePending ==
  /\ pc = "exclude"
  /\ ci > Len(rows)
  /\ LET filtered == filtered_rows(rows)
         pending == PendingOf(filtered, processed_ids, args.limit)
     IN /\ rows' = filtered
        /\ pending_ids' = pending
        /\ skeleton_counter' = SeedCounter(filtered, pending)
  /\ cursor' = 1
  /\ processed_now' = 0
  /\ pc' = "batch"
  /\ UNCHANGED <<ipvars, fixed, filevars, exit_code, processed_ids, batch_ids, states, unresolved, tier,
                 round, running, results, ci, resequenced_rows, remapped_roots, histvars>>

\* top of the batch loop: slice the batch, fresh attempt states
BeginBatch ==
  /\ pc = "batch"
  /\ cursor <= Len(pending_ids)
  /\ LET ids == SubSeq(pending_ids, cursor, Min(cursor + args.batch_size - 1, Len(pending_ids)))
     IN /\ batch_ids' = ids
        /\ states' = [id \in SeqToSet(ids) |-> BlankState]
        /\ hist' = [id \in SeqToSet(ids) |-> <<>>]
        /\ unresolved' = ids
  /\ tier' = "local"
  /\ round' = 0
  /\ counter_at_batch' = skeleton_counter
  /\ pc' = "wave"
  /\ UNCHANGED <<ipvars, fixed, filevars, exit_code, rows, processed_ids, pending_ids, skeleton_counter,
                 cursor, running, results, ci, processed_now, resequenced_rows, remapped_roots,
                 run_no, ledger_at_start, rows_at_start, committed>>

Retries(t) == IF t = "local" THEN args.local_retries ELSE args.cloud_retries

\* a wave of the current tier: pool.submit for every unresolved row
SubmitWave ==
  /\ pc = "wave"
  /\ round < Retries(tier)
  /\ unresolved # <<>>
  /\ running' = SeqToSet(unresolved)
  /\ results' = [id \in SeqToSet(unresolved) |-> "missing"]
  /\ pc' = "pool"
  /\ UNCHANGED <<ipvars, fixed, filevars, exit_code, rows, processed_ids, pending_ids, skeleton_counter,
                 cursor, batch_ids, states, unresolved, tier, round, ci, processed_now,
                 resequenced_rows, remapped_roots, histvars>>

\* the local waves are over (budget used or nothing unresolved)
LocalWavesOver ==
  /\ pc = "wave"
  /\ tier = "local"
  /\ round >= Retries("local") \/ unresolved = <<>>
  /\ tier' = "cloud"
  /\ round' = 0
  /\ UNCHANGED <<ipvars, fixed, filevars, pc, exit_code, rows, processed_ids, pending_ids,
                 skeleton_counter, cursor, batch_ids, states, unresolved, running, results, ci,
                 processed_now, resequenced_rows, remapped_roots, histvars>>

\* the cloud waves are over: enter the commit loop
CloudWavesOver ==
  /\ pc = "wave"
  /\ tier = "cloud"
  /\ round >= Retries("cloud") \/ unresolved = <<>>
  /\ pc' = "commit"
  /\ ci' = 1
  /\ UNCHANGED <<ipvars, fixed, filevars, exit_code, rows, processed_ids, pending_ids, skeleton_counter,
                 cursor, batch_ids, states, unresolved, tier, round, running, results,
                 processed_now, resequenced_rows, remapped_roots, histvars>>

\* local_task / cloud_task of one row finishes: the generator raised or
\* returned a payload; as_completed stores it in results
WorkerDone(row_id, resp) ==
  /\ pc = "pool"
  /\ row_id \in running
  /\ running' = running \ {row_id}
  /\ results' = [results EXCEPT ![row_id] = resp]
  /\ hist' = [hist EXCEPT ![row_id] = Append(@, resp)]
  /\ UNCHANGED <<ipvars, fixed, filevars, pc, exit_code, rows, processed_ids, pending_ids,
                 skeleton_counter, cursor, batch_ids, states, unresolved, tier, round, ci,
                 processed_now, resequenced_rows, remapped_roots, run_no, ledger_at_start,
                 rows_at_start, counter_at_batch, committed>>

\* mutant: the results are validated without joining the pool
PoolJoined_nojoin == TRUE

\* the pool has been joined (the with-block ended)
PoolJoined == running = {}

\* a validation loop in which a generator error ends the attempts of the row
AttemptOutcome_err_final(state, row, resp, counter, t, r) ==
  LET counted == IF t = "local"
                 THEN [state EXCEPT !.local_attempts = @ + 1]
                 ELSE [state EXCEPT !.cloud_attempts = @ + 1]
      tag(code) == <<t, r + 1, code>>
  IN IF resp \in {"err", "missing"}
     THEN [counted EXCEPT !.error_codes = Append(@, tag(resp)), !.accepted = TRUE]
     ELSE LET pcand == process_candidate(row, resp, counter, args.global_skeleton_cap)
          IN IF ~pcand.ok
             THEN [counted EXCEPT !.error_codes = @ \o [i \in DOMAIN pcand.errors |-> tag(pcand.errors[i])]]
             ELSE [counted EXCEPT !.accepted = TRUE, !.candidate = <<pcand.updated>>,
                                  !.skeletons = pcand.skeletons]

\* body of the validation loop for one unresolved row
AttemptOutcome(state, row, resp, counter, t, r) ==
  LET counted == IF t = "local"
                 THEN [state EXCEPT !.local_attempts = @ + 1]
                 ELSE [state EXCEPT !.cloud_attempts = @ + 1]
      tag(code) == <<t, r + 1, code>>
  IN IF resp \in {"err", "missing"}
     THEN [counted EXCEPT !.error_codes = Append(@, tag(resp))]
     ELSE LET pcand == process_candidate(row, resp, counter, args.global_skeleton_cap)
          IN IF ~pcand.ok
             THEN [counted EXCEPT !.error_codes = @ \o [i \in DOMAIN pcand.errors |-> tag(pcand.errors[i])]]
             ELSE [counted EXCEPT !.accepted = TRUE, !.candidate = <<pcand.updated>>,
                                  !.skeletons = pcand.skeletons]

\* mutant: accepted rows stay in the unresolved list
next_unresolved_all(ids, next_states) == ids

\* next_unresolved: the rows of the wave that were not accepted
next_unresolved(ids, next_states) == SelectSeq(ids, LAMBDA id : ~next_states[id].accepted)

\* after the pool: validate every result of the wave in row order
ValidateWave ==
  /\ pc = "pool"
  /\ PoolJoined
  /\ LET next_states ==
           [id \in DOMAIN states |->
              IF id \in SeqToSet(unresolved)
              THEN AttemptOutcome(states[id], rows[id_to_index(rows, id)], results[id],
                                  skeleton_counter, tier, round)
              ELSE states[id]]
     IN /\ states' = next_states
        /\ unresolved' = next_unresolved(unresolved, next_states)
  /\ round' = round + 1
  /\ pc' = "wave"
  /\ UNCHANGED <<ipvars, fixed, filevars, exit_code, rows, processed_ids, pending_ids, skeleton_counter,
                 cursor, batch_ids, tier, running, results, ci, processed_now,
                 resequenced_rows, remapped_roots, histvars>>

\* mutant: the commit loop visits the batch in reverse order
CommitOrder_reversed(ids) == [i \in DOMAIN ids |-> ids[Len(ids) + 1 - i]]

\* the commit loop visits the batch in its original row order
CommitOrder(ids) == ids

\* mutant: the failure branch stores the cleaned synonyms into the row
commit_row_cleaned(state, original_row) ==
  IF state.accepted /\ state.candidate # <<>> THEN state.candidate[1]
  ELSE [original_row EXCEPT !.synonym = "cleaned"]

\* the row stored back by the commit loop
commit_row(state, original_row) ==
  IF state.accepted /\ state.candidate # <<>> THEN state.candidate[1] ELSE original_row

\* one iteration of the commit loop: row mutation, counter increment,
\* checkpoint append
CommitRow ==
  /\ pc = "commit"
  /\ ci <= Len(batch_ids)
  /\ LET row_id == CommitOrder(batch_ids)[ci]
         state == states[row_id]
         idx == id_to_index(rows, row_id)
         original_row == rows[idx]
     IN IF state.accepted /\ state.candidate # <<>>
        THEN /\ rows' = [rows EXCEPT ![idx] = commit_row(state, original_row)]
             /\ skeleton_counter' = CounterAdd(skeleton_counter, state.skeletons)
             /\ checkpoint' = Append(checkpoint,
                    make_checkpoint_record(row_id, "changed", state.local_attempts,
                                           state.cloud_attempts, TRUE, <<>>))
             /\ committed' = Append(committed, [key |-> original_row.key,
                                                sentences |-> state.candidate[1].sentences])
        ELSE /\ rows' = [rows EXCEPT ![idx] = commit_row(state, original_row)]
             /\ UNCHANGED skeleton_counter
             /\ checkpoint' = Append(checkpoint,
                    make_checkpoint_record(row_id, "unchanged_failed_generation",
                                           state.local_attempts, state.cloud_attempts, FALSE,
                                           state.error_codes))
             /\ committed' = Append(committed, [key |-> original_row.key,
                                                sentences |-> original_row.sentences])
  /\ processed_ids' = processed_ids \cup {CommitOrder(batch_ids)[ci]}
  /\ processed_now' = processed_now + 1
  /\ ci' = ci + 1
  /\ UNCHANGED <<ipvars, fixed, input_seed, input_roots, output_seed, output_roots, partial_seed,
                 seed_backup, roots_backup, pc, exit_code, pending_ids, cursor, batch_ids,
                 states, unresolved, tier, round, running, results, resequenced_rows,
                 remapped_roots, run_no, ledger_at_start, rows_at_start, counter_at_batch, hist>>

\* should_print_progress: count threshold, or the progress interval elapsed
should_print_progress(n, chunk_size, elapsed) ==
  n > 0 /\ (n % chunk_size = 0 \/ elapsed)

\* end of a batch: the conditional partial snapshot, then the next cursor
EndBatch ==
  /\ pc = "commit"
  /\ ci > Len(batch_ids)
  /\ \E elapsed \in BOOLEAN :
       partial_seed' = IF should_print_progress(processed_now, args.chunk_size, elapsed)
                       THEN File(rows) ELSE partial_seed
  /\ cursor' = cursor + args.batch_size
  \* the names bound inside the loop body are rebound by the next iteration
  \* and never read after the loop
  /\ batch_ids' = <<>>
  /\ states' = <<>>
  /\ unresolved' = <<>>
  /\ results' = <<>>
  /\ tier' = "local"
  /\ round' = 0
  /\ ci' = 1
  /\ hist' = <<>>
  /\ counter_at_batch' = skeleton_counter
  /\ pc' = "batch"
  /\ UNCHANGED <<ipvars, fixed, input_seed, input_roots, output_seed, output_roots, seed_backup,
                 roots_backup, checkpoint, exit_code, rows, processed_ids, pending_ids,
                 skeleton_counter, running, processed_now, resequenced_rows, remapped_roots,
                 run_no, ledger_at_start, rows_at_start, committed>>

\* a completion test that is satisfied by any processed row
full_completion_some == processed_ids # {}

full_completion == RowIds(rows) \subseteq processed_ids

\* after the batch loop: the working snapshot is written in every case
WriteFinalPartial ==
  /\ pc = "batch"
  /\ cursor > Len(pending_ids)
  /\ partial_seed' = File(rows)
  /\ pc' = "final"
  /\ UNCHANGED <<ipvars, fixed, input_seed, input_roots, output_seed, output_roots, seed_backup,
                 roots_backup, checkpoint, exit_code, memvars, histvars>>

\* partial run: staged output, return 0
PartialExit ==
  /\ pc = "final"
  /\ ~full_completion
  /\ output_seed' = File(rows)
  /\ Exit("0")
  /\ UNCHANGED <<ipvars, fixed, input_seed, input_roots, output_roots, partial_seed, seed_backup,
                 roots_backup, checkpoint, run_no, ledger_at_start, committed>>

\* full completion, first audit fails: staged output, return 2
AuditFailExit ==
  /\ pc = "final"
  /\ full_completion
  /\ ~audit_rows(rows, args.global_skeleton_cap)
  /\ output_seed' = File(rows)
  /\ Exit("2")
  /\ UNCHANGED <<ipvars, fixed, input_seed, input_roots, output_roots, partial_seed, seed_backup,
                 roots_backup, checkpoint, run_no, ledger_at_start, committed>>

\* full completion, first audit passed: resequence, remap, second audits;
\* both outcomes of the second audits first write the staged seed
WriteOutputSeed ==
  /\ pc = "final"
  /\ full_completion
  /\ audit_rows(rows, args.global_skeleton_cap)
  /\ LET rr == resequence_rows(rows)
     IN /\ resequenced_rows' = rr.remapped
        /\ remapped_roots' = remap_roots_word_ids(input_roots.data, rr.id_map)
        /\ output_seed' = File(rr.remapped)
  /\ pc' = "out_roots"
  /\ UNCHANGED <<ipvars, fixed, input_seed, input_roots, output_roots, partial_seed, seed_backup,
                 roots_backup, checkpoint, exit_code, rows, processed_ids, pending_ids,
                 skeleton_counter, cursor, batch_ids, states, unresolved, tier, round, running,
                 results, ci, processed_now, histvars>>

second_audits_ok ==
  /\ audit_rows(resequenced_rows, args.global_skeleton_cap)
  /\ audit_roots(remapped_roots, resequenced_rows)

\* the staged roots are written; then return 3, or go on to the promotion
WriteOutputRoots ==
  /\ pc = "out_roots"
  /\ output_roots' = File(remapped_roots)
  /\ IF ~second_audits_ok
     THEN Exit("3")
     ELSE /\ pc' = IF ~args.apply THEN "unlink"
                   ELSE IF args.backup THEN "backup_seed" ELSE "replace_seed"
          /\ UNCHANGED <<exit_code, memvars, hist, rows_at_start, counter_at_batch>>
  /\ UNCHANGED <<ipvars, fixed, input_seed, input_roots, output_seed, partial_seed, seed_backup,
                 roots_backup, checkpoint, run_no, ledger_at_start, committed>>

BackupSeed ==
  /\ pc = "backup_seed"
  /\ seed_backup' = input_seed
  /\ pc' = "backup_roots"
  /\ UNCHANGED <<ipvars, fixed, input_seed, input_roots, output_seed, output_roots, partial_seed,
                 roots_backup, checkpoint, exit_code, memvars, histvars>>

BackupRoots ==
  /\ pc = "backup_roots"
  /\ roots_backup' = input_roots
  /\ pc' = "replace_seed"
  /\ UNCHANGED <<ipvars, fixed, input_seed, input_roots, output_seed, output_roots, partial_seed,
                 seed_backup, checkpoint, exit_code, memvars, histvars>>

\* os.replace(output_seed, input_seed)
ReplaceSeed ==
  /\ pc = "replace_seed"
  /\ input_seed' = output_seed
  /\ output_seed' = NoFile
  /\ pc' = "replace_roots"
  /\ UNCHANGED <<ipvars, fixed, input_roots, output_roots, partial_seed, seed_backup, roots_backup,
                 checkpoint, exit_code, memvars, histvars>>

\* os.replace(output_roots, input_roots)
ReplaceRoots ==
  /\ pc = "replace_roots"
  /\ input_roots' = output_roots
  /\ output_roots' = NoFile
  /\ pc' = "unlink"
  /\ UNCHANGED <<ipvars, fixed, input_seed, output_seed, partial_seed, seed_backup, roots_backup,
                 checkpoint, exit_code, memvars, histvars>>

\* the partial snapshot is removed after a successful full completion
UnlinkPartial ==
  /\ pc = "unlink"
  /\ partial_seed' = NoFile
  /\ Exit("0")
  /\ UNCHANGED <<ipvars, fixed, input_seed, input_roots, output_seed, output_roots, seed_backup,
                 roots_backup, checkpoint, run_no, ledger_at_start, committed>>

\* the process dies between two steps; files stay as they are
Crash ==
  /\ pc # "idle"
  /\ Exit("crash")
  /\ UNCHANGED <<ipvars, fixed, filevars, run_no, ledger_at_start, committed>>

NextS ==
  \/ StartRun
  \/ ExcludeRow
  \/ ComputePending
  \/ BeginBatch
  \/ SubmitWave
  \/ LocalWavesOver
  \/ CloudWavesOver
  \/ \E row_id \in 1..(NRows + 1), resp \in Responses : WorkerDone(row_id, resp)
  \/ ValidateWave
  \/ CommitRow
  \/ EndBatch
  \/ WriteFinalPartial
  \/ PartialExit
  \/ AuditFailExit
  \/ WriteOutputSeed
  \/ WriteOutputRoots
  \/ BackupSeed
  \/ BackupRoots
  \/ ReplaceSeed
  \/ ReplaceRoots
  \/ UnlinkPartial
  \/ Crash

SpecS == InitS /\ [][NextS]_vars

\* the steps of a run: main() runs on, and every generator call returns or
\* raises within its timeout
RunStepS ==
  \/ ExcludeRow
  \/ ComputePending
  \/ BeginBatch
  \/ SubmitWave
  \/ LocalWavesOver
  \/ CloudWavesOver
  \/ \E row_id \in 1..(NRows + 1), resp \in Responses : WorkerDone(row_id, resp)
  \/ ValidateWave
  \/ CommitRow
  \/ EndBatch
  \/ WriteFinalPartial

SpecSFair == SpecS /\ WF_vars(RunStepS)

TypeOKS == pc \in {"idle", "exclude", "batch", "wave", "pool", "commit", "final", "out_roots",
                   "backup_seed", "backup_roots", "replace_seed", "replace_roots", "unlink"}

\* =========================================================== properties
\* records appended to the ledger by the current run
NewRecords == SubSeq(checkpoint, ledger_at_start + 1, Len(checkpoint))

\* ids that had a record when the current run started
OldIds == {checkpoint[i].id : i \in 1..ledger_at_start}

RowById(rs, id) == rs[id_to_index(rs, id)]

HasKey(rs, key) == \E i \in DOMAIN rs : rs[i].key = key

RowByKey(rs, key) == rs[CHOOSE i \in DOMAIN rs : rs[i].key = key]

\* the counter as seeded by this run
SeededCounter == SeedCounter(SelectSeq(rows_at_start, LAMBDA r : ~r.sens), pending_ids)

InBatchLoop == pc \in {"batch", "wave", "pool", "commit"}

\* C1: if every skeleton count is within the cap when the run starts, every
\* skeleton count stays within the cap after any sequence of batch commits.
C1_CapNeverExceeded ==
  (InBatchLoop /\ \A s \in Skeletons : SeededCounter[s] <= args.global_skeleton_cap)
    => \A s \in Skeletons : skeleton_counter[s] <= args.global_skeleton_cap

\* a response of the generator that cannot be accepted for the row
Fails(row, resp, counter) ==
  resp \in {"err", "missing"} \/ ~process_candidate(row, resp, counter, args.global_skeleton_cap).ok

\* every attempt of the row in the current batch failed
Exhausted(id) ==
  \A k \in DOMAIN hist[id] : Fails(RowById(rows_at_start, id), hist[id][k], counter_at_batch)

SameContent(r1, r2) == r1.sentences = r2.sentences /\ r1.synonym = r2.synonym

\* the snapshot rows of the exhausted rows recorded so far by this run are
\* those the run loaded
ExhaustedKept(snapshot) ==
  \A i \in (ledger_at_start + 1)..Len(checkpoint) :
     checkpoint[i].status = "unchanged_failed_generation"
       => /\ HasKey(snapshot, committed[i].key)
          /\ SameContent(RowByKey(snapshot, committed[i].key),
                         RowByKey(rows_at_start, committed[i].key))

\* C2: a row all of whose attempts failed is committed with status
\* unchanged_failed_generation and keeps its sentences and synonym in the
\* row array and in every snapshot written afterwards.
C2_ExhaustedRowUntouched ==
  [][ /\ (pc = "commit" /\ pc' = "commit" /\ ci' = ci + 1 /\ Exhausted(CommitOrder(batch_ids)[ci]))
         => /\ checkpoint'[Len(checkpoint')].status = "unchanged_failed_generation"
            /\ checkpoint'[Len(checkpoint')].id = CommitOrder(batch_ids)[ci]
            /\ SameContent(RowById(rows', CommitOrder(batch_ids)[ci]),
                           RowById(rows_at_start, CommitOrder(batch_ids)[ci]))
      /\ (pc \notin {"idle", "exclude"} /\ pc' # "idle") => ExhaustedKept(rows')
      /\ (pc # "idle" /\ partial_seed' # partial_seed /\ partial_seed'.exists)
         => ExhaustedKept(partial_seed'.data)
      /\ (pc # "idle" /\ output_seed' # output_seed /\ output_seed'.exists)
         => ExhaustedKept(output_seed'.data)
    ]_vars

\* an exhausted row has been committed and a snapshot was written after it
C2_Witness ==
  /\ pc = "final"
  /\ partial_seed.exists
  /\ \E i \in (ledger_at_start + 1)..Len(checkpoint) :
       /\ checkpoint[i].status = "unchanged_failed_generation"
       /\ checkpoint[i].attempts_local + checkpoint[i].attempts_cloud >= 2

\* last ledger position of each row key
LastRecordOf(key) ==
  CHOOSE i \in DOMAIN committed :
    committed[i].key = key /\ \A j \in DOMAIN committed : committed[j].key = key => j <= i

\* rows with a "changed" record whose committed sentences are not in the
\* snapshot a resumed run would load
LostRows ==
  {key \in {committed[i].key : i \in DOMAIN committed} :
     /\ checkpoint[LastRecordOf(key)].status = "changed"
     /\ ~(/\ ResumeSnapshot.exists
          /\ HasKey(ResumeSnapshot.data, key)
          /\ RowByKey(ResumeSnapshot.data, key).sentences = committed[LastRecordOf(key)].sentences)}

\* C3: wherever the process stops, the rows recorded in the ledger whose
\* committed content is missing from the resume snapshot are at most the
\* rows of one batch.
C3_LoseAtMostOneBatch == Cardinality(LostRows) <= args.batch_size

\* records of the current run that come from the commit loop
CommitRecords == SelectSeq(NewRecords, LAMBDA r : r.status # "excluded_sensitive")

\* C4: every pending row processed in a run has exactly one record appended
\* in that run, at the commit of its batch, and no record is appended for an
\* id that was in the ledger when the run started.
C4_OneRecordPerRow ==
  pc # "idle" =>
    /\ \A i \in DOMAIN NewRecords : NewRecords[i].id \notin OldIds
    /\ \A i, j \in DOMAIN NewRecords : NewRecords[i].id = NewRecords[j].id => i = j
    /\ pc # "exclude" =>
         /\ Len(CommitRecords) = processed_now
         /\ \A id \in SeqToSet(Take(pending_ids, cursor - 1)) :
              Cardinality({i \in DOMAIN NewRecords : NewRecords[i].id = id}) = 1
         /\ pc \in {"wave", "pool"} =>
              \A i \in DOMAIN NewRecords : NewRecords[i].id \notin SeqToSet(batch_ids)
         /\ pc \in {"final", "out_roots", "unlink"} =>
              \A id \in SeqToSet(pending_ids) :
                Cardinality({i \in DOMAIN NewRecords : NewRecords[i].id = id}) = 1

\* a resumed run has committed a batch next to an older ledger
C4_Witness ==
  /\ pc = "final"
  /\ ledger_at_start > 0
  /\ processed_now > 0

\* row keys whose processing was recorded when the current run started
OldKeys == {committed[i].key : i \in 1..ledger_at_start}

\* C6: a re-run on the ledger and snapshots left by a previous run sends no
\* row whose processing is already recorded to a generator and appends no
\* further record for it.
C6_NoReprocessing ==
  pc # "idle" =>
    /\ \A id \in running : RowById(rows, id).key \notin OldKeys
    /\ \A i \in (ledger_at_start + 1)..Len(checkpoint) : committed[i].key \notin OldKeys

\* C8: the skeleton counter is incremented only while no worker of the pool
\* is running, and a step of the pool phase leaves it as it is.
C8_CounterWrittenOnlyAtCommit ==
  [][ /\ (\E s \in Skeletons : skeleton_counter'[s] > skeleton_counter[s])
         => (running = {} /\ running' = {} /\ pc \in {"exclude", "commit"})
      /\ (pc = "pool" /\ pc' # "idle") => skeleton_counter' = skeleton_counter
    ]_vars

\* the counter has been incremented by a commit that followed a pool phase
C8_Witness ==
  /\ pc = "commit"
  /\ ci > 1
  /\ skeleton_counter # counter_at_batch
  /\ \E id \in DOMAIN hist : Len(hist[id]) >= 1

\* index of the first response of the row that passes process_candidate
\* against the counter of the batch start, 0 if none does
FirstAccepted(id) ==
  LET h == hist[id]
      good == {k \in DOMAIN h : ~Fails(RowById(rows_at_start, id), h[k], counter_at_batch)}
  IN IF good = {} THEN 0 ELSE CHOOSE k \in good : \A m \in good : k <= m

\* what the responses received by the row determine: status, attempts, content
ExpectedStatus(id) == IF FirstAccepted(id) > 0 THEN "changed" ELSE "unchanged_failed_generation"

ExpectedAttempts(id) ==
  IF FirstAccepted(id) > 0 THEN FirstAccepted(id)
  ELSE IF Exhausted(id) THEN args.local_retries + args.cloud_retries ELSE 0

ExpectedSentences(id) ==
  IF FirstAccepted(id) > 0 THEN hist[id][FirstAccepted(id)]
  ELSE RowById(rows_at_start, id).sentences

\* C9: the records of a batch are appended in the original row order, after
\* all attempt waves; the status, attempts and content of every committed
\* row and the counter are functions of the responses per (row, attempt),
\* whatever the order in which the futures completed.
C9_CommitDeterministic ==
  /\ pc \in {"wave", "pool"} =>
       /\ Len(CommitRecords) = processed_now
       /\ \A i \in DOMAIN NewRecords : NewRecords[i].id \notin SeqToSet(batch_ids)
  /\ pc \in {"batch", "wave", "pool", "commit", "final"} =>
       [i \in DOMAIN CommitRecords |-> CommitRecords[i].id] = Take(pending_ids, processed_now)
  /\ pc = "commit" =>
       /\ \A j \in 1..(ci - 1) :
            LET id == batch_ids[j]
                rec == checkpoint[Len(checkpoint) - (ci - 1) + j]
            IN /\ rec.id = id
               /\ rec.status = ExpectedStatus(id)
               /\ rec.attempts_local + rec.attempts_cloud = ExpectedAttempts(id)
               /\ rec.attempts_local <= args.local_retries
               /\ RowById(rows, id).sentences = ExpectedSentences(id)
       /\ \A s \in Skeletons :
            skeleton_counter[s] = counter_at_batch[s]
              + Cardinality({p \in (1..(ci - 1)) \X (1..3) :
                               /\ FirstAccepted(batch_ids[p[1]]) > 0
                               /\ Candidate[ExpectedSentences(batch_ids[p[1]])].skeletons[p[2]] = s})

\* a batch of two rows has been committed after waves in which both rows
\* had a worker, one row accepted and one exhausted
C9_Witness ==
  /\ pc = "commit"
  /\ Len(batch_ids) = 2
  /\ ci = 3
  /\ FirstAccepted(batch_ids[1]) = 0
  /\ FirstAccepted(batch_ids[2]) > 0

MaxWorkers == 2

\* command lines of improve_sentences_inplace.py.  qa_modulus is
\* sample_modulus(args.qa_sample_rate); the thresholds are percentages.
\* --strip-sentences-old-final keeps its default (True), so verify_rows never
\* requires sentences_old.
ArgsI ==
  [mode : {"strict_llm", "turbo_deterministic"}, workers : 1..MaxWorkers,
   chunk_size : 1..(MaxChunk + 1), limit : {0, 1}, fallback_stop_pct : {30},
   fallback_max_pct : {50}, qa_modulus : {2}, qa_fail_threshold : {5}]

InitI ==
  /\ args \in ArgsI
  /\ \E okN \in BOOLEAN : input_seed = File(InitialRows(0, FALSE, okN))
  /\ input_roots = NoFile
  /\ output_seed = NoFile
  /\ output_roots = NoFile
  /\ partial_seed = NoFile
  /\ seed_backup = NoFile
  /\ roots_backup = NoFile
  /\ checkpoint = <<>>
  /\ pc = "idle"
  /\ exit_code = "none"
  /\ MemInit
  /\ IpInit
  /\ run_no = 0
  /\ ledger_at_start = 0
  /\ rows_at_start = <<>>
  /\ counter_at_batch = ZeroCounter
  /\ hist = <<>>
  /\ committed = <<>>
  /\ frame = NoFrame

IpReset ==
  /\ window_ids' = <<>>
  /\ run_processed' = 0
  /\ chunk_counter' = 0
  /\ total_rewritten_total' = 0
  /\ total_fallback_total' = 0
  /\ processed_this_run_ids' = {}
  /\ stop_code_window' = "none"
  /\ sampled_ids' = <<>>
  /\ failed_ids' = <<>>
  /\ qa_unresolved' = 0
  /\ verify_ok' = TRUE
  /\ process_item_calls' = 0

ExitI(code) == Exit(code) /\ IpReset

\* memory of the stochastic main() that the in-place main() does not have
sonly == <<skeleton_counter, batch_ids, states, unresolved, tier, round, results,
           processed_now, resequenced_rows, remapped_roots, counter_at_batch, committed>>

\* files the in-place pipeline never touches
sfiles == <<input_roots, output_roots, seed_backup, roots_backup>>

read_processed_ids(ledger) == {ledger[i].id : i \in DOMAIN ledger}

RECURSIVE SumField(_, _)
SumField(ledger, f) ==
  IF ledger = <<>> THEN 0 ELSE ledger[1][f] + SumField(Tail(ledger), f)

\* load_checkpoint_metrics: totals over every line of the ledger
load_checkpoint_metrics(ledger) ==
  [rewritten |-> SumField(ledger, "rewritten_count"),
   fallback  |-> SumField(ledger, "fallback_count")]

\* the checks of verify_rows on one row
verify_row(row) == row.sentences # "orig" \/ row.ok

\* verify_rows restricted to ids_subset
verify_rows(rs, ids_subset) ==
  \A i \in DOMAIN rs : rs[i].id \in ids_subset => verify_row(rs[i])

\* sorted(ids)
sorted(S) ==
  CHOOSE s \in [1..Cardinality(S) -> S] : \A i, j \in DOMAIN s : i < j => s[i] < s[j]

\* parse_failed_ids(verify_errors) for the same scope
parse_failed_ids(rs, ids_subset) ==
  sorted({rs[i].id : i \in {j \in DOMAIN rs : rs[j].id \in ids_subset /\ ~verify_row(rs[j])}})

is_sampled_id(row_id, modulus) == modulus > 0 /\ row_id % modulus = 0

\* what process_item can return for a row: the sentences are kept (only when
\* they already pass), rewritten, or rewritten through the fallback template
\* (strict_llm only); the call can also raise
ProcessOutcomes(row, mode) ==
  {"new", "raise"} \cup (IF verify_row(row) THEN {"kept"} ELSE {})
                   \cup (IF mode = "strict_llm" THEN {"fb"} ELSE {})

\* process_item: the updated row and its checkpoint record
process_item(row, outcome) ==
  LET rec(ch, rw, fb) == [id |-> row.id, changed |-> ch, rewritten_count |-> rw,
                          fallback_count |-> fb, source |-> "process_item"]
  IN IF outcome = "kept" THEN [row |-> row, record |-> rec(FALSE, 0, 0)]
     ELSE IF outcome = "new"
          THEN [row |-> [row EXCEPT !.sentences = "new"], record |-> rec(TRUE, 3, 0)]
          ELSE [row |-> [row EXCEPT !.sentences = "fb"], record |-> rec(TRUE, 1, 1)]

\* apply_deterministic_fix: deterministic rewrite of the failing sentences
apply_deterministic_fix(row) ==
  [row |-> [row EXCEPT !.sentences = "fixed"],
   record |-> [id |-> row.id, changed |-> TRUE, rewritten_count |-> 1,
               fallback_count |-> 0, source |-> "qa_fix_applied"]]

full_completion_I == RowIds(rows) \subseteq processed_ids

LoopPc == IF args.workers = 1 THEN "ip_serial" ELSE "ip_window"

ResumeSnapshotI ==
  IF read_processed_ids(checkpoint) = {} THEN input_seed
  ELSE IF partial_seed.exists THEN partial_seed
  ELSE IF output_seed.exists THEN output_seed
  ELSE NoFile

\* main() up to the start of the processing loop
StartRunI ==
  /\ pc = "idle"
  /\ run_no < MaxRuns
  /\ run_no' = run_no + 1
  /\ ledger_at_start' = Len(checkpoint)
  /\ IF ~ResumeSnapshotI.exists
     THEN /\ ExitI("1")
          /\ UNCHANGED <<fixed, filevars, committed>>
     ELSE LET rs == ResumeSnapshotI.data
              processed == read_processed_ids(checkpoint)
              pending == PendingOf(rs, processed, args.limit)
              prior == load_checkpoint_metrics(checkpoint)
          IN /\ rows' = rs
             /\ rows_at_start' = rs
             /\ processed_ids' = processed
             /\ pending_ids' = pending
             /\ total_rewritten_total' = prior.rewritten
             /\ total_fallback_total' = prior.fallback
             /\ cursor' = 1
             /\ pc' = IF pending = <<>> THEN "ip_post" ELSE LoopPc
             /\ UNCHANGED <<fixed, filevars, exit_code, sonly, running, ci, hist,
                            window_ids, run_processed, chunk_counter,
                            processed_this_run_ids, stop_code_window, sampled_ids,
                            failed_ids, qa_unresolved, verify_ok, process_item_calls>>

\* first half of process_completed_item: the row is stored, the record is
\* appended to the ledger and the run counters move
CompletedItem(row_id, res) ==
  /\ rows' = [rows EXCEPT ![id_to_index(rows, row_id)] = res.row]
  /\ checkpoint' = Append(checkpoint, res.record)
  /\ run_processed' = run_processed + 1
  /\ processed_ids' = processed_ids \cup {row_id}
  /\ processed_this_run_ids' = processed_this_run_ids \cup {row_id}
  /\ chunk_counter' = chunk_counter + 1
  /\ total_rewritten_total' = total_rewritten_total + res.record.rewritten_count
  /\ total_fallback_total' = total_fallback_total + res.record.fallback_count
  /\ pc' = "ip_item"

\* serial loop body (workers == 1): process_item on the next pending row; an
\* exception of process_item is not caught and ends the process
SerialItem(outcome) ==
  /\ pc = "ip_serial"
  /\ cursor <= Len(pending_ids)
  /\ LET row_id == pending_ids[cursor]
         row == rows[id_to_index(rows, row_id)]
     IN /\ outcome \in ProcessOutcomes(row, args.mode)
        /\ IF outcome = "raise"
           THEN /\ ExitI("1")
                /\ UNCHANGED <<fixed, filevars, run_no, ledger_at_start, committed>>
           ELSE /\ CompletedItem(row_id, process_item(row, outcome))
                /\ process_item_calls' = process_item_calls + 1
                /\ hist' = Append(hist, [id |-> row_id, outcome |-> outcome])
                /\ UNCHANGED <<fixed, input_seed, output_seed, partial_seed, sfiles,
                               exit_code, pending_ids, cursor, running, ci, sonly,
                               window_ids, stop_code_window, sampled_ids, failed_ids,
                               qa_unresolved, verify_ok, run_no, ledger_at_start,
                               rows_at_start>>

\* parallel loop: one window of pending ids is submitted to the executor
SubmitWindow ==
  /\ pc = "ip_window"
  /\ cursor <= Len(pending_ids)
  /\ LET w == SubSeq(pending_ids, cursor, Min(cursor + args.workers - 1, Len(pending_ids)))
     IN /\ window_ids' = w
        /\ cursor' = cursor + Len(w)
        /\ running' = SeqToSet(w)
        /\ process_item_calls' = process_item_calls + Len(w)
  /\ stop_code_window' = "none"
  /\ hist' = <<>>
  /\ pc' = "ip_pool"
  /\ UNCHANGED <<fixed, filevars, exit_code, rows, processed_ids, pending_ids, ci, sonly,
                 run_processed, chunk_counter, total_rewritten_total,
                 total_fallback_total, processed_this_run_ids, sampled_ids, failed_ids,
                 qa_unresolved, verify_ok, run_no, ledger_at_start, rows_at_start>>

\* as_completed yields the future of row_id: its exception ends the run with
\* code 5 after a snapshot, its result goes through process_completed_item.
\* The window's rows were deep-copied at submission, before any of them
\* changed.
HandleFuture(row_id, outcome) ==
  /\ pc = "ip_pool"
  /\ row_id \in running
  /\ LET row == rows[id_to_index(rows, row_id)]
     IN /\ outcome \in ProcessOutcomes(row, args.mode)
        /\ IF outcome = "raise"
           THEN /\ partial_seed' = File(rows)
                /\ ExitI("5")
                /\ UNCHANGED <<fixed, input_seed, output_seed, sfiles, checkpoint, run_no,
                               ledger_at_start, committed>>
           ELSE /\ CompletedItem(row_id, process_item(row, outcome))
                /\ running' = running \ {row_id}
                /\ hist' = Append(hist, [id |-> row_id, outcome |-> outcome])
                /\ UNCHANGED <<fixed, input_seed, output_seed, partial_seed, sfiles,
                               exit_code, pending_ids, cursor, ci, sonly, window_ids,
                               stop_code_window, sampled_ids, failed_ids, qa_unresolved,
                               verify_ok, process_item_calls, run_no, ledger_at_start,
                               rows_at_start>>

\* fallback_pct > args.fallback_stop_pct
fallback_stop(rewritten, fallback, pct) ==
  rewritten > 0 /\ fallback * 100 > pct * rewritten

\* second half of process_completed_item and the loop control after it: the
\* fallback threshold (snapshot, stop code 3) or the chunk snapshot.  The
\* serial loop returns the stop code at once; the parallel loop keeps it in
\* stop_code_window and returns it after the window's last future.
AfterItem ==
  /\ pc = "ip_item"
  /\ LET stop == fallback_stop(total_rewritten_total, total_fallback_total,
                               args.fallback_stop_pct)
         chunk == ~stop /\ chunk_counter >= args.chunk_size
         code == IF stop THEN "3" ELSE stop_code_window
         leave == IF args.workers = 1 THEN stop ELSE running = {} /\ code # "none"
         next == IF args.workers = 1 THEN cursor + 1 ELSE cursor
     IN /\ partial_seed' = IF stop \/ chunk THEN File(rows) ELSE partial_seed
        /\ IF leave
           THEN /\ ExitI("3")
                /\ UNCHANGED <<run_no, ledger_at_start, committed>>
           ELSE /\ chunk_counter' = IF chunk THEN 0 ELSE chunk_counter
                /\ stop_code_window' = IF args.workers = 1 THEN stop_code_window ELSE code
                /\ cursor' = next
                /\ pc' = IF args.workers > 1 /\ running # {} THEN "ip_pool"
                         ELSE IF next > Len(pending_ids) THEN "ip_post"
                         ELSE LoopPc
                /\ UNCHANGED <<exit_code, rows, processed_ids, pending_ids, running, ci,
                               sonly, hist, window_ids, run_processed,
                               total_rewritten_total, total_fallback_total,
                               processed_this_run_ids, sampled_ids, failed_ids,
                               qa_unresolved, verify_ok, process_item_calls, run_no,
                               ledger_at_start, rows_at_start>>
  /\ UNCHANGED <<fixed, input_seed, output_seed, sfiles, checkpoint>>

\* verification scope of main(): every row on full completion, else the rows
\* processed by this run
VerifyScope == IF full_completion_I THEN RowIds(rows) ELSE processed_this_run_ids

\* after the loop: turbo_deterministic runs the QA spot-audit over the sampled
\* ids of the scope, strict_llm goes to verification
PostLoop ==
  /\ pc = "ip_post"
  /\ IF args.mode = "turbo_deterministic"
     THEN /\ sampled_ids' = SelectSeq(sorted(VerifyScope),
                                      LAMBDA x : is_sampled_id(x, args.qa_modulus))
          /\ pc' = "ip_qa"
     ELSE /\ UNCHANGED sampled_ids
          /\ pc' = "ip_verify"
  /\ ci' = 1
  /\ qa_unresolved' = 0
  /\ UNCHANGED <<fixed, filevars, exit_code, rows, processed_ids, pending_ids, cursor,
                 running, sonly, hist, window_ids, run_processed, chunk_counter,
                 total_rewritten_total, total_fallback_total, processed_this_run_ids,
                 stop_code_window, failed_ids, verify_ok, process_item_calls, run_no,
                 ledger_at_start, rows_at_start>>

Reviews == {"pass", "fail", "audit_error"}

\* run_spot_audit, one sampled id: a review error counts as unresolved, a
\* failing review makes apply_deterministic_fix rewrite the row and append
\* its record to the ledger
QaItem(review) ==
  /\ pc = "ip_qa"
  /\ ci <= Len(sampled_ids)
  /\ LET row_id == sampled_ids[ci]
         idx == id_to_index(rows, row_id)
         res == apply_deterministic_fix(rows[idx])
     IN /\ rows' = IF review = "fail" THEN [rows EXCEPT ![idx] = res.row] ELSE rows
        /\ checkpoint' = IF review = "fail" THEN Append(checkpoint, res.record)
                         ELSE checkpoint
  /\ qa_unresolved' = IF review = "audit_error" THEN qa_unresolved + 1 ELSE qa_unresolved
  /\ ci' = ci + 1
  /\ UNCHANGED <<fixed, input_seed, output_seed, partial_seed, sfiles, pc, exit_code,
                 processed_ids, pending_ids, cursor, running, sonly, hist, window_ids,
                 run_processed, chunk_counter, total_rewritten_total,
                 total_fallback_total, processed_this_run_ids, stop_code_window,
                 sampled_ids, failed_ids, verify_ok, process_item_calls, run_no,
                 ledger_at_start, rows_at_start>>

\* failure_ratio <= qa_fail_threshold
qa_ok == sampled_ids = <<>> \/ qa_unresolved * 100 <= args.qa_fail_threshold * Len(sampled_ids)

\* end of run_spot_audit: the totals are reloaded from the ledger
QaDone ==
  /\ pc = "ip_qa"
  /\ ci > Len(sampled_ids)
  /\ total_rewritten_total' = load_checkpoint_metrics(checkpoint).rewritten
  /\ total_fallback_total' = load_checkpoint_metrics(checkpoint).fallback
  /\ pc' = IF qa_ok THEN "ip_verify" ELSE "ip_qa_out"
  /\ UNCHANGED <<fixed, filevars, exit_code, rows, processed_ids, pending_ids, cursor,
                 running, ci, sonly, hist, window_ids, run_processed, chunk_counter,
                 processed_this_run_ids, stop_code_window, sampled_ids, failed_ids,
                 qa_unresolved, verify_ok, process_item_calls, run_no, ledger_at_start,
                 rows_at_start>>

\* failed QA gate: the working rows go to the output file ...
QaFailWriteOutput ==
  /\ pc = "ip_qa_out"
  /\ output_seed' = File(rows)
  /\ pc' = "ip_qa_partial"
  /\ UNCHANGED <<fixed, input_seed, partial_seed, sfiles, checkpoint, exit_code, memvars,
                 ipvars, histvars>>

\* ... and to the partial snapshot, and the run returns 6
QaFailExit ==
  /\ pc = "ip_qa_partial"
  /\ partial_seed' = File(rows)
  /\ ExitI("6")
  /\ UNCHANGED <<fixed, input_seed, output_seed, sfiles, checkpoint, run_no,
                 ledger_at_start, committed>>

\* verify_rows over the scope; a failed full-completion run in
\* turbo_deterministic mode goes to the auto-repair pass
VerifyRows ==
  /\ pc = "ip_verify"
  /\ LET v == verify_rows(rows, VerifyScope)
         repair == ~v /\ full_completion_I /\ args.mode = "turbo_deterministic"
     IN /\ verify_ok' = v
        /\ failed_ids' = IF repair THEN parse_failed_ids(rows, VerifyScope) ELSE failed_ids
        /\ pc' = IF repair THEN "ip_repair" ELSE "ip_write_out"
  /\ ci' = 1
  /\ UNCHANGED <<fixed, filevars, exit_code, rows, processed_ids, pending_ids, cursor,
                 running, sonly, hist, window_ids, run_processed, chunk_counter,
                 total_rewritten_total, total_fallback_total, processed_this_run_ids,
                 stop_code_window, sampled_ids, qa_unresolved, process_item_calls, run_no,
                 ledger_at_start, rows_at_start>>

\* auto-repair pass, one failed id: process_item in deterministic mode, its
\* record is appended to the ledger
RepairItem(outcome) ==
  /\ pc = "ip_repair"
  /\ ci <= Len(failed_ids)
  /\ LET idx == id_to_index(rows, failed_ids[ci])
         res == process_item(rows[idx], outcome)
     IN /\ outcome \in ProcessOutcomes(rows[idx], "turbo_deterministic")
        /\ IF outcome = "raise"
           THEN /\ ExitI("1")
                /\ UNCHANGED <<fixed, filevars, run_no, ledger_at_start, committed>>
           ELSE /\ rows' = [rows EXCEPT ![idx] = res.row]
                /\ checkpoint' = Append(checkpoint,
                                        [res.record EXCEPT !.source = "post_verify_repair"])
                /\ process_item_calls' = process_item_calls + 1
                /\ ci' = ci + 1
                /\ UNCHANGED <<fixed, input_seed, output_seed, partial_seed, sfiles, pc,
                               exit_code, processed_ids, pending_ids, cursor, running,
                               sonly, hist, window_ids, run_processed, chunk_counter,
                               total_rewritten_total, total_fallback_total,
                               processed_this_run_ids, stop_code_window, sampled_ids,
                               failed_ids, qa_unresolved, verify_ok, run_no,
                               ledger_at_start, rows_at_start>>

\* end of the auto-repair pass: verify_rows over every row again
RepairDone ==
  /\ pc = "ip_repair"
  /\ ci > Len(failed_ids)
  /\ verify_ok' = verify_rows(rows, RowIds(rows))
  /\ pc' = "ip_write_out"
  /\ UNCHANGED <<fixed, filevars, exit_code, rows, processed_ids, pending_ids, cursor,
                 running, ci, sonly, hist, window_ids, run_processed, chunk_counter,
                 total_rewritten_total, total_fallback_total, processed_this_run_ids,
                 stop_code_window, sampled_ids, failed_ids, qa_unresolved,
                 process_item_calls, run_no, ledger_at_start, rows_at_start>>

\* final writes of main(): output file, partial snapshot and, on full
\* completion, the canonical seed_data.json (the input file)
WriteOutputI ==
  /\ pc = "ip_write_out"
  /\ output_seed' = File(rows)
  /\ pc' = "ip_write_partial"
  /\ UNCHANGED <<fixed, input_seed, partial_seed, sfiles, checkpoint, exit_code, memvars,
                 ipvars, histvars>>

WritePartialI ==
  /\ pc = "ip_write_partial"
  /\ partial_seed' = File(rows)
  /\ pc' = IF full_completion_I THEN "ip_write_canonical" ELSE "ip_finish"
  /\ UNCHANGED <<fixed, input_seed, output_seed, sfiles, checkpoint, exit_code, memvars,
                 ipvars, histvars>>

WriteCanonical ==
  /\ pc = "ip_write_canonical"
  /\ input_seed' = File(rows)
  /\ pc' = "ip_finish"
  /\ UNCHANGED <<fixed, output_seed, partial_seed, sfiles, checkpoint, exit_code, memvars,
                 ipvars, histvars>>

\* final_fallback_pct > args.fallback_max_pct
fallback_ceiling ==
  total_rewritten_total > 0 /\ total_fallback_total * 100 > args.fallback_max_pct * total_rewritten_total

\* result of main(): 2 on failed verification, 4 on the fallback ceiling,
\* else 0 (the partial snapshot is removed after a full completion)
Finish ==
  /\ pc = "ip_finish"
  /\ IF ~verify_ok THEN ExitI("2") /\ UNCHANGED partial_seed
     ELSE IF fallback_ceiling THEN ExitI("4") /\ UNCHANGED partial_seed
     ELSE /\ partial_seed' = IF full_completion_I THEN NoFile ELSE partial_seed
          /\ ExitI("0")
  /\ UNCHANGED <<fixed, input_seed, output_seed, sfiles, checkpoint, run_no,
                 ledger_at_start, committed>>

\* the process dies between two steps
CrashI ==
  /\ pc # "idle"
  /\ ExitI("crash")
  /\ UNCHANGED <<fixed, filevars, run_no, ledger_at_start, committed>>

NextI ==
  \/ StartRunI
  \/ \E outcome \in {"kept", "new", "fb", "raise"} : SerialItem(outcome)
  \/ SubmitWindow
  \/ \E row_id \in 1..NRows, outcome \in {"kept", "new", "fb", "raise"} :
       HandleFuture(row_id, outcome)
  \/ AfterItem
  \/ PostLoop
  \/ \E review \in Reviews : QaItem(review)
  \/ QaDone
  \/ QaFailWriteOutput
  \/ QaFailExit
  \/ VerifyRows
  \/ \E outcome \in {"kept", "new", "raise"} : RepairItem(outcome)
  \/ RepairDone
  \/ WriteOutputI
  \/ WritePartialI
  \/ WriteCanonical
  \/ Finish
  \/ CrashI

SpecI == InitI /\ [][NextI]_vars

\* ------------------------------------------- properties: in-place pipeline
\* C5: a run of the in-place pipeline started with a ledger holding N
\* processed ids out of M row ids calls process_item for at most M - N rows
\* and appends at most M - N lines to the ledger (main loop, QA spot-audit
\* and auto-repair pass together).
C5_AtMostPendingWork ==
  (pc # "idle" /\ rows_at_start # <<>>) =>
    LET M == Cardinality(RowIds(rows_at_start))
        N == Cardinality(OldIds \cap RowIds(rows_at_start))
    IN /\ process_item_calls <= M - N
       /\ Len(checkpoint) - ledger_at_start <= M - N

\* every post-run audit of the run in progress has passed
AuditsPassed ==
  IF pc = "ip_write_canonical" THEN verify_ok
  ELSE /\ pc \in {"replace_seed", "replace_roots"}
       /\ audit_rows(rows, args.global_skeleton_cap)
       /\ second_audits_ok

\* C7: the canonical dataset file is overwritten only in a run in which every
\* post-run audit or verification has passed; after a failed verification it
\* keeps its previous content.
C7_CanonicalOnlyAfterAudits == [][input_seed' # input_seed => AuditsPassed]_vars

\* ids of the window in the order their futures were handled
HandledOrder == [i \in DOMAIN hist |-> hist[i].id]

OutcomeOf(row_id) == hist[CHOOSE i \in DOMAIN hist : hist[i].id = row_id].outcome

RecordOf(row_id) == process_item(RowById(rows, row_id), OutcomeOf(row_id)).record

RECURSIVE SumOver(_, _)
SumOver(ids, f) ==
  IF ids = <<>> THEN 0 ELSE RecordOf(Head(ids))[f] + SumOver(Tail(ids), f)

\* stop decision of the window when its futures complete in submission order
StopInSubmissionOrder ==
  LET base_rw == total_rewritten_total - SumOver(window_ids, "rewritten_count")
      base_fb == total_fallback_total - SumOver(window_ids, "fallback_count")
  IN \E k \in 1..Len(window_ids) :
       fallback_stop(base_rw + SumOver(Take(window_ids, k), "rewritten_count"),
                     base_fb + SumOver(Take(window_ids, k), "fallback_count"),
                     args.fallback_stop_pct)

\* stop decision the run is about to take at the end of the window
StopTaken ==
  \/ stop_code_window # "none"
  \/ fallback_stop(total_rewritten_total, total_fallback_total, args.fallback_stop_pct)

WindowHandled == args.workers > 1 /\ pc = "ip_item" /\ running = {}

\* C10: with more than one worker and fixed generator responses per row, the
\* order of the appended records and the fallback-threshold stop are what
\* they are when the futures of the window complete in submission order,
\* whatever order they really completed in.
C10_CompletionOrderIrrelevant ==
  WindowHandled =>
    /\ HandledOrder = window_ids
    /\ StopTaken = StopInSubmissionOrder

\* the counter a run started now would seed: the snapshot it would load, without
\* the sensitive rows, scanned over the rows that are not pending
ResumedCounter ==
  LET filtered == SelectSeq(ResumeSnapshot.data, LAMBDA r : ~r.sens)
      excluded == {ResumeSnapshot.data[i].id : i \in {j \in DOMAIN ResumeSnapshot.data :
                                                       ResumeSnapshot.data[j].sens}}
      processed == read_checkpoint(checkpoint) \cup excluded
  IN SeedCounter(filtered, PendingOf(filtered, processed, args.limit))

\* C14: the skeleton counter a resumed run computes at its start equals,
\* skeleton by skeleton, the counter in memory at the end of the previous run.
C14_ResumedCounterEqual ==
  (pc = "final" /\ ~full_completion /\ read_checkpoint(checkpoint) # {}) =>
     \A s \in Skeletons : ResumedCounter[s] = skeleton_counter[s]

\* every row id of the working row set has a checkpoint record
AllRecorded == RowIds(rows) \subseteq read_checkpoint(checkpoint)

\* main() is past the completion test, in the audits, the resequencing, the
\* roots remap or the promotion
Finalizing ==
  pc \in {"out_roots", "backup_seed", "backup_roots", "replace_seed", "replace_roots", "unlink"}

IdsOf(rs) == [i \in DOMAIN rs |-> rs[i].id]

\* the end of a run that did not crash and left an id unprocessed
PartialEnd ==
  /\ exit_code' = "0"
  /\ pc' = "idle"
  /\ partial_seed = File(rows)
  /\ output_seed' = File(rows)
  /\ IdsOf(rows) = IdsOf(SelectSeq(rows_at_start, LAMBDA r : ~r.sens))
  /\ UNCHANGED <<input_seed, input_roots, output_roots, partial_seed, seed_backup,
                 roots_backup, checkpoint>>

\* C16: audit, resequencing, roots remap and promotion happen only in a run at
\* whose end every row id has a checkpoint record; a run that leaves an id
\* unprocessed does none of them, keeps the row ids and exits 0 after writing
\* the partial and the output snapshot.
C16_FinalizeOnlyWhenComplete ==
  /\ [](Finalizing => AllRecorded)
  /\ [][(pc = "final" /\ AllRecorded) \/ pc # "final" \/ exit_code' = "crash"
        \/ PartialEnd]_vars
  /\ [][(pc = "final" /\ AllRecorded) \/ Finalizing \/
        (/\ resequenced_rows' = <<>>
         /\ remapped_roots' = <<>>
         /\ UNCHANGED <<input_seed, input_roots, output_roots, seed_backup, roots_backup>>)]_vars

C16_Witness ==
  /\ pc = "idle"
  /\ exit_code = "0"
  /\ partial_seed.exists
  /\ output_seed = partial_seed
  /\ ~(RowIds(partial_seed.data) \subseteq read_checkpoint(checkpoint))
  /\ read_checkpoint(checkpoint) # {}

\* os.replace moves the staged file onto the canonical one
SeedReplaced == output_seed.exists /\ ~output_seed'.exists /\ input_seed' = output_seed

RootsReplaced == output_roots.exists /\ ~output_roots'.exists /\ input_roots' = output_roots

\* C17: the canonical seed and the canonical roots are replaced in one atomic
\* step, so that wherever the process stops both are old or both are new; with
\* backup enabled no canonical file is replaced before both backups exist.
C17_PromotionAtomic ==
  /\ [][SeedReplaced <=> RootsReplaced]_vars
  /\ [][((SeedReplaced \/ RootsReplaced) /\ args.backup) =>
          (seed_backup.exists /\ roots_backup.exists)]_vars

\* ---------------------------------------------------------------------------
\* Both pipelines side by side: a behaviour is a sequence of runs of one of them.
\* ---------------------------------------------------------------------------
InPlaceRun == "mode" \in DOMAIN args

InitB == InitS \/ InitI

NextB ==
  \/ ~InPlaceRun /\ NextS
  \/ InPlaceRun /\ NextI

SpecB == InitB /\ [][NextB]_vars

\* the step that starts a run
RunStarts == pc = "idle" /\ run_no' = run_no + 1

LedgerIds == {checkpoint[i].id : i \in DOMAIN checkpoint}

\* C15: when the ledger holds a processed id, a run takes its rows from the
\* partial snapshot if it exists, otherwise from the output snapshot, never from
\* the input; if neither exists it exits with code 1 before processing a row,
\* appending a ledger record or writing a dataset file.
C15_ResumeFromSnapshot ==
  [][(RunStarts /\ LedgerIds # {}) =>
       IF partial_seed.exists
         THEN rows' = partial_seed.data /\ pc' # "idle"
       ELSE IF output_seed.exists
         THEN rows' = output_seed.data /\ pc' # "idle"
       ELSE /\ exit_code' = "1"
            /\ pc' = "idle"
            /\ rows' = <<>>
            /\ process_item_calls' = process_item_calls
            /\ UNCHANGED filevars]_vars

C15_Witness ==
  /\ exit_code = "1"
  /\ pc = "idle"
  /\ LedgerIds # {}
  /\ ~partial_seed.exists
  /\ ~output_seed.exists
  /\ input_seed.exists

\* ---------------------------------------------------------------------------
\* improve_sentences_inplace.py: ensure_set_constraints and what it calls.
\*
\* A sentence is kept as what the validators read from it: whether the lemma
\* occurs as a token, the number of word-like tokens, the three style marks of
\* diversity_signature, the first word and the terminal token.
\* ---------------------------------------------------------------------------
MIN_WORDLIKE_COUNT == 8
MAX_WORDLIKE_COUNT == 14
MAX_GENERATION_RETRIES == 5
max_rounds == 8

Sentence(has_lemma, count, q, d, c, starts_with, terminal) ==
  [has_lemma |-> has_lemma, count |-> count, has_question |-> q, has_quote |-> d,
   has_complex_clause |-> c, starts_with |-> starts_with, terminal |-> terminal]

STYLE_ORDER == <<"question", "dialogue", "complex">>
Indices == 0..2

\* lemma: one token ("word") or several ("phrase"); a token never equals a phrase
find_cloze_index(text, lemma) == lemma = "word" /\ text.has_lemma

validate_sentence(text, lemma) ==
  /\ find_cloze_index(text, lemma)
  /\ text.count >= MIN_WORDLIKE_COUNT
  /\ text.count <= MAX_WORDLIKE_COUNT

punctuation_pattern(text) ==
  <<text.terminal, text.has_question, text.has_quote, text.has_complex_clause>>

\* a validate_set that only asks for a question, a quote or a clause marker
validate_set_flags_only(texts) ==
  IF \A i \in Indices : ~(texts[i].has_question \/ texts[i].has_quote
                          \/ texts[i].has_complex_clause)
  THEN {"set_missing_question_or_dialogue_or_complex"} ELSE {}

\* the reasons of validate_set
validate_set(texts) ==
  (IF \A i \in Indices : ~(texts[i].has_question \/ texts[i].has_quote
                           \/ texts[i].has_complex_clause)
     THEN {"set_missing_question_or_dialogue_or_complex"} ELSE {})
  \cup (IF \A i, j \in Indices : texts[i].starts_with = texts[j].starts_with
          THEN {"set_all_same_start_token"} ELSE {})
  \cup (IF \A i, j \in Indices : punctuation_pattern(texts[i]) = punctuation_pattern(texts[j])
          THEN {"set_all_same_punctuation_pattern"} ELSE {})

style_presence(texts) ==
  [question |-> \E i \in Indices : texts[i].has_question,
   dialogue |-> \E i \in Indices : texts[i].has_quote,
   complex  |-> \E i \in Indices : texts[i].has_complex_clause]

sentence_matches_style(text, style) ==
  CASE style = "question" -> text.has_question
    [] style = "dialogue" -> text.has_quote
    [] style = "complex"  -> text.has_complex_clause
    [] OTHER -> TRUE

NoText == [none |-> TRUE]

\* a sentence, as opposed to NoText, an exception or a generator error
IsText(x) == "count" \in DOMAIN x

\* the wrapper adds five words, the "Although" clause four; rstrip removes a
\* question mark only where it ends the sentence
repair_style_mismatch(text, style) ==
  CASE style = "dialogue" /\ ~text.has_quote ->
         [text EXCEPT !.has_quote = TRUE, !.count = @ + 5, !.terminal = ".",
                      !.has_question = text.has_question /\ text.terminal # "?"]
    [] style = "question" /\ ~text.has_question ->
         [text EXCEPT !.has_question = TRUE, !.terminal = "?"]
    [] style = "complex" /\ ~text.has_complex_clause ->
         [text EXCEPT !.has_complex_clause = TRUE, !.count = @ + 4,
                      !.starts_with = "although"]
    [] OTHER -> NoText

\* a template with the lemma filled in: a phrase adds a token
Fill(template, lemma) ==
  IF lemma = "word" THEN template ELSE [template EXCEPT !.count = @ + 1]

\* the "noun" templates of fallback_sentence
pos_templates ==
  [question |->
     <<Sentence(TRUE, 14, TRUE, FALSE, TRUE, "when", "?"),
       Sentence(TRUE, 12, TRUE, FALSE, TRUE, "if", "?"),
       Sentence(TRUE, 13, TRUE, FALSE, TRUE, "when", "?")>>,
   dialogue |->
     <<Sentence(TRUE, 14, FALSE, TRUE, TRUE, "without", "quote"),
       Sentence(TRUE, 13, FALSE, TRUE, FALSE, "better", "quote"),
       Sentence(TRUE, 13, FALSE, TRUE, TRUE, "that", "quote")>>,
   complex |->
     <<Sentence(TRUE, 15, FALSE, FALSE, TRUE, "although", "."),
       Sentence(TRUE, 14, FALSE, FALSE, TRUE, "because", "."),
       Sentence(TRUE, 15, FALSE, FALSE, TRUE, "while", ".")>>,
   contextual |->
     <<Sentence(TRUE, 14, FALSE, FALSE, TRUE, "after", "."),
       Sentence(TRUE, 15, FALSE, FALSE, FALSE, "during", "."),
       Sentence(TRUE, 14, FALSE, FALSE, FALSE, "in", ".")>>]

StyleNo(style) ==
  CASE style = "question" -> 0 [] style = "dialogue" -> 1 [] style = "complex" -> 2
    [] OTHER -> 3

\* the digest of a key, read as an integer: what the lemma and the definition
\* contribute is the seed of the call; the prefix, the index and the style of
\* the key are added to it
KeyDigest(seed, prefix, idx, style) == seed + prefix + 2 * idx + StyleNo(style)

stable_pick(options, key) == options[(key % Len(options)) + 1]

fallback_sentence(lemma, style, key) ==
  Fill(stable_pick(pos_templates[style], key), lemma)

\* the hard guard sentences of the deterministic branch
hard_guard(style, lemma) ==
  Fill(CASE style = "question" -> Sentence(TRUE, 11, TRUE, FALSE, TRUE, "when", "?")
         [] style = "dialogue" -> Sentence(TRUE, 11, FALSE, TRUE, FALSE, "without", "quote")
         [] style = "complex"  -> Sentence(TRUE, 11, FALSE, FALSE, TRUE, "although", ".")
         [] OTHER -> Sentence(TRUE, 12, FALSE, FALSE, FALSE, "during", "."), lemma)

\* the final hard guard of the generating branch: always the question sentence
final_guard(lemma) == Fill(Sentence(TRUE, 14, TRUE, FALSE, TRUE, "when", "?"), lemma)

Raised == [raised |-> TRUE]

\* enforce_sentence_generation with deterministic=True: the new text, or Raised
enforce_deterministic(f, idx, style) ==
  LET candidate == fallback_sentence(f.lemma, style, KeyDigest(f.seed, 1, idx, style))
      hard == hard_guard(style, f.lemma)
  IN IF validate_sentence(candidate, f.lemma) /\ sentence_matches_style(candidate, style)
       THEN candidate
     ELSE IF validate_sentence(hard, f.lemma) /\ sentence_matches_style(hard, style)
       THEN hard
     ELSE Raised

\* what enforce_sentence_generation does after its last generator attempt
enforce_fallback(f, idx, style) ==
  LET fallback == fallback_sentence(f.lemma, style, KeyDigest(f.seed, 0, idx, style))
  IN IF validate_sentence(fallback, f.lemma) THEN fallback
     ELSE IF validate_sentence(final_guard(f.lemma), f.lemma) THEN final_guard(f.lemma)
     ELSE Raised

\* one pass of the attempt loop on a generator response: the accepted text, or
\* NoText when the loop continues
attempt_result(f, style, generated) ==
  IF ~IsText(generated) THEN NoText
  ELSE IF ~validate_sentence(generated, f.lemma) THEN NoText
  ELSE IF ~sentence_matches_style(generated, style)
    THEN LET repaired == repair_style_mismatch(generated, style)
         IN IF IsText(repaired) /\ validate_sentence(repaired, f.lemma)
               /\ sentence_matches_style(repaired, style)
              THEN repaired ELSE NoText
  ELSE generated

target_style_of(f) ==
  LET mix == style_presence(f.texts)
      set_reasons == validate_set(f.texts)
      missing_styles == SelectSeq(STYLE_ORDER, LAMBDA style : ~mix[style])
  IN IF f.rewrite_indices # {} /\ missing_styles # <<>> THEN missing_styles[1]
     ELSE IF "set_all_same_punctuation_pattern" \in set_reasons
       THEN (IF ~mix.question THEN "question" ELSE "dialogue")
     ELSE IF "set_all_same_start_token" \in set_reasons
       THEN (IF ~mix.dialogue THEN "dialogue" ELSE "complex")
     ELSE "contextual"

\* candidate_order[0]: rewritten indices first, then the lowest score, then the index
OrderKey(f, idx) ==
  <<IF idx \in f.rewrite_indices THEN 0 ELSE 1, f.review_scores[idx], idx>>

KeyLess(a, b) ==
  \/ a[1] < b[1]
  \/ a[1] = b[1] /\ a[2] < b[2]
  \/ a[1] = b[1] /\ a[2] = b[2] /\ a[3] <= b[3]

target_idx_of(f) ==
  CHOOSE idx \in Indices : \A other \in Indices : KeyLess(OrderKey(f, idx), OrderKey(f, other))

\* "set_ok and mix_ok" at the head of the loop
acceptable(f) ==
  /\ validate_set(f.texts) = {}
  /\ f.rewrite_indices # {} => \A k \in 1..Len(STYLE_ORDER) : style_presence(f.texts)[STYLE_ORDER[k]]

\* every variable of the pipelines at rest: a library function is checked alone
PipelineIdle ==
  /\ args = [mode |-> "none"]
  /\ input_seed = NoFile
  /\ input_roots = NoFile
  /\ output_seed = NoFile
  /\ output_roots = NoFile
  /\ partial_seed = NoFile
  /\ seed_backup = NoFile
  /\ roots_backup = NoFile
  /\ checkpoint = <<>>
  /\ pc = "idle"
  /\ exit_code = "none"
  /\ MemInit
  /\ IpInit
  /\ run_no = 0
  /\ ledger_at_start = 0
  /\ rows_at_start = <<>>
  /\ counter_at_batch = ZeroCounter
  /\ hist = <<>>
  /\ committed = <<>>

pipeline == <<args, filevars, pc, exit_code, memvars, ipvars, histvars>>

\* input sentences: a plain valid one, a short question without the lemma, a
\* valid quoted sentence with a subordinate clause
InputSentences ==
  {Sentence(TRUE, 10, FALSE, FALSE, FALSE, "the", "."),
   Sentence(FALSE, 2, TRUE, FALSE, FALSE, "why", "?"),
   Sentence(TRUE, 9, FALSE, TRUE, TRUE, "although", "quote")}

Err == [err |-> TRUE]

\* what generate_sentence_with_llm may answer: an exception, a sentence without
\* the lemma, a short and a long plain sentence
GeneratorAnswers ==
  {Err,
   Sentence(FALSE, 9, FALSE, FALSE, FALSE, "the", "."),
   Sentence(TRUE, 9, FALSE, FALSE, FALSE, "the", "."),
   Sentence(TRUE, 12, FALSE, FALSE, FALSE, "we", ".")}

ReviewRewrites == {NoText, Sentence(TRUE, 9, TRUE, FALSE, FALSE, "why", "?")}

ReviewScores == {[idx \in Indices |-> 0], [idx \in Indices |-> 2 - idx]}

InitE ==
  /\ PipelineIdle
  /\ \E texts \in [Indices -> InputSentences], lemma \in {"word", "phrase"},
        seed \in 0..2, review_scores \in ReviewScores, rewrite \in ReviewRewrites,
        rewrite_indices \in SUBSET Indices, deterministic \in BOOLEAN :
       frame = [fn |-> "ensure_set_constraints", at |-> "loop", texts |-> texts,
                lemma |-> lemma, seed |-> seed, review_scores |-> review_scores,
                review_rewrite |-> rewrite, rewrite_indices |-> rewrite_indices,
                deterministic |-> deterministic, rounds |-> 0, attempt |-> 0,
                target_idx |-> 0, target_style |-> "", forced |-> 0, rewrites |-> 0]

\* a round that is not counted
finish_round_uncounted(f, idx, new_text) ==
  [f EXCEPT !.texts[idx] = new_text, !.rewrite_indices = @ \cup {idx},
            !.rewrites = @ + 1, !.at = "loop", !.attempt = 0]

\* the rewritten sentence replaces its target and the round ends
finish_round(f, idx, new_text) ==
  [f EXCEPT !.texts[idx] = new_text, !.rewrite_indices = @ \cup {idx},
            !.rounds = @ + 1, !.rewrites = @ + 1, !.at = "loop", !.attempt = 0]

\* the head of a round: return, or choose the target and enter
\* enforce_sentence_generation up to its first generator call
CheckSet ==
  /\ frame.fn = "ensure_set_constraints"
  /\ frame.at = "loop"
  /\ frame.rounds < max_rounds
  /\ LET style == target_style_of(frame)
         idx == target_idx_of(frame)
         f == [frame EXCEPT !.target_idx = idx, !.target_style = style, !.rewrites = 0]
         det == enforce_deterministic(f, idx, style)
         candidate == f.review_rewrite
     IN frame' =
          IF acceptable(frame) THEN [frame EXCEPT !.at = "returned"]
          ELSE IF f.deterministic
            THEN (IF ~IsText(det) THEN [f EXCEPT !.at = "raised"]
                  ELSE finish_round(f, idx, det))
          ELSE IF IsText(candidate) /\ validate_sentence(candidate, f.lemma)
                  /\ sentence_matches_style(candidate, style)
            THEN finish_round(f, idx, candidate)
          ELSE [f EXCEPT !.at = "generate", !.attempt = 0]
  /\ UNCHANGED pipeline

\* one generator call of the attempt loop, and the fallback after the last one
LlmAttempt(generated) ==
  /\ frame.fn = "ensure_set_constraints"
  /\ frame.at = "generate"
  /\ LET f == [frame EXCEPT !.attempt = @ + 1]
         r == attempt_result(f, f.target_style, generated)
         fb == enforce_fallback(f, f.target_idx, f.target_style)
     IN frame' =
          IF IsText(r) THEN finish_round(f, f.target_idx, r)
          ELSE IF f.attempt < MAX_GENERATION_RETRIES THEN f
          ELSE IF ~IsText(fb) THEN [f EXCEPT !.at = "raised"]
          ELSE finish_round(f, f.target_idx, fb)
  /\ UNCHANGED pipeline

forced_styles == [idx \in Indices |-> <<"complex", "question", "dialogue">>[idx + 1]]

\* after the last round the trio is overwritten, unvalidated
ForceTrio ==
  /\ frame.fn = "ensure_set_constraints"
  /\ frame.at = "loop"
  /\ frame.rounds >= max_rounds
  /\ frame' = [frame EXCEPT
       !.texts = [idx \in Indices |->
                    fallback_sentence(frame.lemma, forced_styles[idx],
                                      KeyDigest(frame.seed, 2, idx, "force"))],
       !.rewrite_indices = Indices,
       !.forced = @ + 1,
       !.at = "returned"]
  /\ UNCHANGED pipeline

NextE ==
  \/ CheckSet
  \/ \E generated \in GeneratorAnswers : LlmAttempt(generated)
  \/ ForceTrio

SpecE == InitE /\ [][NextE]_vars

\* the function runs sequentially and every generator call returns or times out
SpecEFair == SpecE /\ WF_vars(NextE)

\* C12: whenever ensure_set_constraints returns, the three sentences satisfy
\* validate_set, each satisfies validate_sentence for the lemma, and when
\* rewrite_indices is not empty the set holds a question, a quoted dialogue and
\* a complex-clause sentence.
C12_ReturnedSetValid ==
  (frame.fn = "ensure_set_constraints" /\ frame.at = "returned") =>
     /\ validate_set(frame.texts) = {}
     /\ \A idx \in Indices : validate_sentence(frame.texts[idx], frame.lemma)
     /\ frame.rewrite_indices # {} =>
          \A k \in 1..Len(STYLE_ORDER) : style_presence(frame.texts)[STYLE_ORDER[k]]

\* the bounds of C13: ensure_set_constraints makes at most 8 repair rounds, each rewriting
\* one sentence with at most MAX_GENERATION_RETRIES generator calls, overwrites
\* the trio at most once and only after the 8th round, and then returns.
C13_BoundedRepair ==
  frame.fn = "ensure_set_constraints" =>
     /\ frame.rounds <= max_rounds
     /\ frame.attempt <= MAX_GENERATION_RETRIES
     /\ frame.rewrites <= 1
     /\ frame.forced <= 1
     /\ frame.forced = 1 => (frame.rounds = max_rounds /\ frame.at = "returned")
     /\ frame.at = "generate" => frame.rounds < max_rounds
     /\ (frame.at = "loop" /\ frame.rounds = max_rounds) => ENABLED ForceTrio

\* C13: ensure_set_constraints always terminates, within the bounds above.
C13_Terminates ==
  /\ []C13_BoundedRepair
  /\ <>(frame.at \in {"returned", "raised"})

C13_Witness ==
  /\ frame.fn = "ensure_set_constraints"
  /\ frame.at = "returned"
  /\ frame.forced = 1
  /\ frame.rounds = max_rounds

\* ---------------------------------------------------------------------------
\* improve_sentences_inplace.py: enforce_sentence_generation called on its own,
\* for every part of speech of fallback_sentence.
\* ---------------------------------------------------------------------------
\* pos_templates of fallback_sentence, every part of speech
templates_by_pos ==
  [noun |-> pos_templates,
   adjective |->
    [question |->
       <<Sentence(TRUE, 16, TRUE, FALSE, TRUE, "when", "?"),
         Sentence(TRUE, 15, TRUE, FALSE, TRUE, "after", "?"),
         Sentence(TRUE, 14, TRUE, FALSE, TRUE, "when", "?")>>,
     dialogue |->
       <<Sentence(TRUE, 15, FALSE, TRUE, FALSE, "we", "quote"),
         Sentence(TRUE, 12, FALSE, TRUE, TRUE, "keep", "quote"),
         Sentence(TRUE, 13, FALSE, TRUE, TRUE, "if", "quote")>>,
     complex |->
       <<Sentence(TRUE, 14, FALSE, FALSE, TRUE, "although", "."),
         Sentence(TRUE, 13, FALSE, FALSE, TRUE, "because", "."),
         Sentence(TRUE, 13, FALSE, FALSE, TRUE, "while", ".")>>,
     contextual |->
       <<Sentence(TRUE, 14, FALSE, FALSE, TRUE, "after", "."),
         Sentence(TRUE, 14, FALSE, FALSE, FALSE, "during", "."),
         Sentence(TRUE, 15, FALSE, FALSE, FALSE, "in", ".")>>],
   verb |->
    [question |->
       <<Sentence(TRUE, 15, TRUE, FALSE, TRUE, "when", "?"),
         Sentence(TRUE, 14, TRUE, FALSE, TRUE, "after", "?"),
         Sentence(TRUE, 13, TRUE, FALSE, TRUE, "when", "?")>>,
     dialogue |->
       <<Sentence(TRUE, 12, FALSE, TRUE, TRUE, "we", "quote"),
         Sentence(TRUE, 14, TRUE, TRUE, FALSE, "can", "quote"),
         Sentence(TRUE, 14, FALSE, TRUE, FALSE, "let", "quote")>>,
     complex |->
       <<Sentence(TRUE, 13, FALSE, FALSE, TRUE, "although", "."),
         Sentence(TRUE, 13, FALSE, FALSE, TRUE, "because", "."),
         Sentence(TRUE, 14, FALSE, FALSE, TRUE, "while", ".")>>,
     contextual |->
       <<Sentence(TRUE, 13, FALSE, FALSE, TRUE, "after", "."),
         Sentence(TRUE, 13, FALSE, FALSE, TRUE, "during", "."),
         Sentence(TRUE, 15, FALSE, FALSE, FALSE, "in", ".")>>],
   modal |->
    [question |->
       <<Sentence(TRUE, 14, TRUE, FALSE, TRUE, "if", "?"),
         Sentence(TRUE, 13, TRUE, FALSE, TRUE, "when", "?"),
         Sentence(TRUE, 12, TRUE, FALSE, TRUE, "if", "?")>>,
     dialogue |->
       <<Sentence(TRUE, 13, FALSE, TRUE, TRUE, "traffic", "quote"),
         Sentence(TRUE, 13, FALSE, TRUE, TRUE, "costs", "quote"),
         Sentence(TRUE, 13, FALSE, TRUE, FALSE, "the", "quote")>>,
     complex |->
       <<Sentence(TRUE, 12, FALSE, FALSE, TRUE, "although", "."),
         Sentence(TRUE, 13, FALSE, FALSE, TRUE, "because", "."),
         Sentence(TRUE, 12, FALSE, FALSE, TRUE, "while", ".")>>,
     contextual |->
       <<Sentence(TRUE, 13, FALSE, FALSE, TRUE, "during", "."),
         Sentence(TRUE, 12, FALSE, FALSE, FALSE, "in", "."),
         Sentence(TRUE, 12, FALSE, FALSE, TRUE, "after", ".")>>],
   adverb |->
    [question |->
       <<Sentence(TRUE, 13, TRUE, FALSE, TRUE, "when", "?"),
         Sentence(TRUE, 13, TRUE, FALSE, TRUE, "after", "?"),
         Sentence(TRUE, 14, TRUE, FALSE, TRUE, "when", "?")>>,
     dialogue |->
       <<Sentence(TRUE, 12, FALSE, TRUE, TRUE, "answer", "quote"),
         Sentence(TRUE, 11, FALSE, TRUE, FALSE, "speak", "quote"),
         Sentence(TRUE, 12, FALSE, TRUE, TRUE, "write", "quote")>>,
     complex |->
       <<Sentence(TRUE, 12, FALSE, FALSE, TRUE, "although", "."),
         Sentence(TRUE, 12, FALSE, FALSE, TRUE, "because", "."),
         Sentence(TRUE, 13, FALSE, FALSE, TRUE, "while", ".")>>,
     contextual |->
       <<Sentence(TRUE, 13, FALSE, FALSE, FALSE, "during", "."),
         Sentence(TRUE, 15, FALSE, FALSE, FALSE, "at", "."),
         Sentence(TRUE, 14, FALSE, FALSE, FALSE, "in", ".")>>],
   other |->
    [question |->
       <<Sentence(TRUE, 14, TRUE, FALSE, TRUE, "when", "?"),
         Sentence(TRUE, 14, TRUE, FALSE, TRUE, "after", "?"),
         Sentence(TRUE, 13, TRUE, FALSE, TRUE, "when", "?")>>,
     dialogue |->
       <<Sentence(TRUE, 13, FALSE, TRUE, FALSE, "we", "quote"),
         Sentence(TRUE, 12, FALSE, TRUE, FALSE, "without", "quote"),
         Sentence(TRUE, 12, FALSE, TRUE, FALSE, "keep", "quote")>>,
     complex |->
       <<Sentence(TRUE, 13, FALSE, FALSE, TRUE, "although", "."),
         Sentence(TRUE, 11, FALSE, FALSE, TRUE, "because", "."),
         Sentence(TRUE, 12, FALSE, FALSE, TRUE, "while", ".")>>,
     contextual |->
       <<Sentence(TRUE, 13, FALSE, FALSE, TRUE, "after", "."),
         Sentence(TRUE, 13, FALSE, FALSE, FALSE, "during", "."),
         Sentence(TRUE, 12, FALSE, FALSE, FALSE, "in", ".")>>]]

PosTags == DOMAIN templates_by_pos

Styles == {"question", "dialogue", "complex", "contextual"}

fallback_sentence_for(pos_tag, lemma, style, key) ==
  Fill(stable_pick(templates_by_pos[pos_tag][style], key), lemma)

\* the deterministic branch: the template, else the hard guard of the style,
\* each accepted only if it is valid and of the style
enforce_deterministic_for(f) ==
  LET candidate == fallback_sentence_for(f.pos_tag, f.lemma, f.style,
                                         KeyDigest(f.seed, 1, f.idx, f.style))
      hard == hard_guard(f.style, f.lemma)
  IN IF validate_sentence(candidate, f.lemma) /\ sentence_matches_style(candidate, f.style)
       THEN [f EXCEPT !.at = "returned", !.result = candidate, !.path = "template"]
     ELSE IF validate_sentence(hard, f.lemma) /\ sentence_matches_style(hard, f.style)
       THEN [f EXCEPT !.at = "returned", !.result = hard, !.path = "hard_guard"]
     ELSE [f EXCEPT !.at = "raised"]

\* after the last generator attempt: the template if it is valid, else the
\* final hard guard if it is valid
enforce_fallback_for(f) ==
  LET fallback == fallback_sentence_for(f.pos_tag, f.lemma, f.style,
                                        KeyDigest(f.seed, 0, f.idx, f.style))
  IN IF validate_sentence(fallback, f.lemma)
       THEN [f EXCEPT !.at = "returned", !.result = fallback, !.path = "template"]
     ELSE IF validate_sentence(final_guard(f.lemma), f.lemma)
       THEN [f EXCEPT !.at = "returned", !.result = final_guard(f.lemma), !.path = "hard_guard"]
     ELSE [f EXCEPT !.at = "raised"]

\* the review rewrites and the generator answers of a call: the answers of
\* the set repair and a valid question
QuestionSentence == Sentence(TRUE, 9, TRUE, FALSE, FALSE, "why", "?")
EnforceRewrites == {NoText, QuestionSentence, Sentence(TRUE, 15, FALSE, TRUE, FALSE, "we", "quote")}
EnforceAnswers == GeneratorAnswers \cup {QuestionSentence}

accept_or_continue(f, generated, r) ==
  IF IsText(r)
    THEN [f EXCEPT !.at = "returned", !.result = r,
                   !.path = IF r = generated THEN "generated" ELSE "style_repaired"]
  ELSE IF f.attempt < MAX_GENERATION_RETRIES THEN f
  ELSE enforce_fallback_for(f)

\* the body of the attempt loop on a generator answer
generate_step(f, generated) ==
  accept_or_continue(f, generated, attempt_result(f, f.style, generated))

InitG ==
  /\ PipelineIdle
  /\ \E lemma \in {"word", "phrase"}, pos_tag \in PosTags, style \in Styles, seed \in 0..2,
        rewrite \in EnforceRewrites, deterministic \in BOOLEAN :
       frame = [fn |-> "enforce_sentence_generation", at |-> "called", lemma |-> lemma,
                pos_tag |-> pos_tag, style |-> style, seed |-> seed, idx |-> 0,
                review_rewrite |-> rewrite, deterministic |-> deterministic,
                attempt |-> 0, calls |-> 0, result |-> NoText, path |-> ""]

\* the call up to its first generator call
EnterEnforce ==
  /\ frame.fn = "enforce_sentence_generation"
  /\ frame.at = "called"
  /\ frame' =
       IF frame.deterministic THEN enforce_deterministic_for(frame)
       ELSE IF IsText(frame.review_rewrite)
               /\ validate_sentence(frame.review_rewrite, frame.lemma)
               /\ sentence_matches_style(frame.review_rewrite, frame.style)
         THEN [frame EXCEPT !.at = "returned", !.result = frame.review_rewrite,
                            !.path = "review_rewrite"]
       ELSE [frame EXCEPT !.at = "generate"]
  /\ UNCHANGED pipeline

\* one generator call of the attempt loop, and what follows the last one
GenerateAttempt(generated) ==
  /\ frame.fn = "enforce_sentence_generation"
  /\ frame.at = "generate"
  /\ frame.attempt < MAX_GENERATION_RETRIES
  /\ frame' = generate_step([frame EXCEPT !.attempt = @ + 1, !.calls = @ + 1], generated)
  /\ UNCHANGED pipeline

NextG ==
  \/ EnterEnforce
  \/ \E generated \in EnforceAnswers : GenerateAttempt(generated)

SpecG == InitG /\ [][NextG]_vars

\* ---------------------------------------------------------------------------
\* improve_sentences_inplace.py: compute_style_targets called on its own, on
\* sentences that are read by the styles they show.
\* ---------------------------------------------------------------------------
\* a sentence, as far as style_presence and sentence_matches_style read it
Shows(q, d, c) == [has_question |-> q, has_quote |-> d, has_complex_clause |-> c]

RECURSIVE sorted_by_score(_, _)
\* sorted(indices, key=lambda idx: (sentence_scores.get(idx, 0.0), idx))
sorted_by_score(indices, sentence_scores) ==
  IF indices = {} THEN <<>>
  ELSE LET first == CHOOSE i \in indices :
                      \A j \in indices : \/ sentence_scores[i] < sentence_scores[j]
                                          \/ (sentence_scores[i] = sentence_scores[j] /\ i <= j)
       IN <<first>> \o sorted_by_score(indices \ {first}, sentence_scores)

\* the styles of STYLE_ORDER that no kept sentence shows
missing_styles(texts, rewrite_indices) ==
  SelectSeq(STYLE_ORDER,
            LAMBDA style : \A idx \in Indices \ rewrite_indices :
                             ~sentence_matches_style(texts[idx], style))

\* the kept sentences with the lowest scores are added to the rewrite set
\* until it has as many indices as there were missing styles before the loop
widen_rewrites(texts, rewrite_indices, sentence_scores) ==
  LET wanted == Len(missing_styles(texts, rewrite_indices)) - Cardinality(rewrite_indices)
      candidates == sorted_by_score(Indices \ rewrite_indices, sentence_scores)
  IN IF wanted <= 0 THEN rewrite_indices
     ELSE rewrite_indices \cup {candidates[k] : k \in 1..Min(wanted, Len(candidates))}

Remove(seq, x) == SelectSeq(seq, LAMBDA y : y # x)

RECURSIVE prefer_review(_, _, _, _)
\* first loop over the missing styles: a rewrite index whose proposed rewrite
\* shows the style takes it; review is <<>> for None
prefer_review(styles, unused, style_targets, review) ==
  IF styles = <<>> THEN [unused |-> unused, style_targets |-> style_targets]
  ELSE LET hits == SelectSeq(unused, LAMBDA idx : /\ review # <<>>
                                                   /\ review[1][idx] # <<>>
                                                   /\ sentence_matches_style(review[1][idx][1],
                                                                             Head(styles)))
       IN IF hits = <<>> THEN prefer_review(Tail(styles), unused, style_targets, review)
          ELSE prefer_review(Tail(styles), Remove(unused, hits[1]),
                             (hits[1] :> Head(styles)) @@ style_targets, review)

RECURSIVE assign_missing(_, _, _)
\* second loop over the missing styles: the next unused index takes a style
\* that no index has; the loop ends when no index is left
assign_missing(styles, unused, style_targets) ==
  IF styles = <<>> THEN [unused |-> unused, style_targets |-> style_targets]
  ELSE IF \E idx \in DOMAIN style_targets : style_targets[idx] = Head(styles)
       THEN assign_missing(Tail(styles), unused, style_targets)
  ELSE IF unused = <<>> THEN [unused |-> unused, style_targets |-> style_targets]
  ELSE assign_missing(Tail(styles), Tail(unused), (Head(unused) :> Head(styles)) @@ style_targets)

\* the indices left after the two loops get the style contextual
with_contextual(assigned) ==
  [idx \in DOMAIN assigned.style_targets \cup SeqToSet(assigned.unused) |->
     IF idx \in DOMAIN assigned.style_targets THEN assigned.style_targets[idx] ELSE "contextual"]

style_targets_for(texts, rewrite_indices, sentence_scores, review, missing) ==
  with_contextual(assign_missing(missing,
                                 prefer_review(missing,
                                               sorted_by_score(rewrite_indices, sentence_scores),
                                               <<>>, review).unused,
                                 prefer_review(missing,
                                               sorted_by_score(rewrite_indices, sentence_scores),
                                               <<>>, review).style_targets))

compute_style_targets_for(texts, widened, sentence_scores, review) ==
  [rewrite_indices |-> widened,
   style_targets |-> style_targets_for(texts, widened, sentence_scores, review,
                                       missing_styles(texts, widened))]

compute_style_targets(texts, rewrite_indices, sentence_scores, review) ==
  IF rewrite_indices = {} THEN [rewrite_indices |-> {}, style_targets |-> <<>>]
  ELSE compute_style_targets_for(texts, widen_rewrites(texts, rewrite_indices, sentence_scores),
                                 sentence_scores, review)

\* sentences that show no style, one style, or a question in a quote
ShownStyles ==
  {Shows(FALSE, FALSE, FALSE), Shows(TRUE, FALSE, FALSE), Shows(FALSE, TRUE, FALSE),
   Shows(FALSE, FALSE, TRUE), Shows(TRUE, TRUE, FALSE)}

\* no review; a review without rewrites; reviews that propose a question
\* for sentence 2, and a dialogue for sentence 0 with a question for sentence 1
StyleReviews ==
  { <<>>,
    <<[idx \in Indices |-> <<>>]>>,
    <<[idx \in Indices |-> IF idx = 2 THEN <<Shows(TRUE, FALSE, FALSE)>> ELSE <<>>]>>,
    <<[idx \in Indices |-> IF idx = 0 THEN <<Shows(FALSE, TRUE, FALSE)>>
                           ELSE IF idx = 1 THEN <<Shows(TRUE, FALSE, FALSE)>> ELSE <<>>]>> }

InitC ==
  /\ PipelineIdle
  /\ \E texts \in [Indices -> ShownStyles], rewrite_indices \in SUBSET Indices,
        sentence_scores \in [Indices -> {50, 80}], review \in StyleReviews :
       frame = [fn |-> "compute_style_targets", at |-> "called", texts |-> texts,
                rewrite_indices |-> rewrite_indices, sentence_scores |-> sentence_scores,
                review |-> review, result |-> <<>>]

CallStyleTargets ==
  /\ frame.fn = "compute_style_targets"
  /\ frame.at = "called"
  /\ frame' = [frame EXCEPT !.at = "returned",
                            !.result = compute_style_targets(frame.texts, frame.rewrite_indices,
                                                             frame.sentence_scores, frame.review)]
  /\ UNCHANGED pipeline

NextC == CallStyleTargets

SpecC == InitC /\ [][NextC]_vars

\* ---------------------------------------------------------------------------
\* improve_seed_stochastic.py: the library functions of the finalization and of
\* the synonym cleaning, each called on its own with inputs of bounded size.
\* ---------------------------------------------------------------------------
SeqsUpTo(S, n) == UNION {[1..k -> S] : k \in 0..n}

\* old ids: integers that are not already dense, and one that is no integer
OldIdValues == {NotInt} \cup (2..(NRows + 2))

InitResequence ==
  \E k \in 0..NRows :
    \E rs \in [1..k -> [id : OldIdValues, lemma : {"a", "b"}]] :
      frame = [fn |-> "resequence_rows", at |-> "call", rows |-> rs, input |-> rs]

\* resequence_rows works on deep copies: the list it was given keeps its rows
CallResequence ==
  /\ frame.fn = "resequence_rows"
  /\ frame.at = "call"
  /\ frame' = [fn |-> "resequence_rows", at |-> "returned", rows |-> frame.rows,
               input |-> frame.input, result |-> resequence_rows(frame.rows)]
  /\ UNCHANGED pipeline

PairwiseDistinct(rs) == \A i, j \in DOMAIN rs : rs[i].id = rs[j].id => i = j

\* f is a bijection from A onto B
Bijection(f, A, B) ==
  /\ DOMAIN f = A
  /\ {f[a] : a \in A} = B
  /\ \A a, b \in A : f[a] = f[b] => a = b

\* what C18 says of the rows: as many rows, in the same order, with ids 1..N,
\* nothing else changed, the input list untouched
ResequencedRowsOk(f) ==
  /\ Len(f.result.remapped) = Len(f.input)
  /\ \A i \in DOMAIN f.input :
       /\ f.result.remapped[i].id = i
       /\ f.result.remapped[i] = [f.input[i] EXCEPT !.id = i]
  /\ f.rows = f.input

\* C18 as stated: resequence_rows returns N rows in the same order with ids
\* 1..N, leaves the other fields and the input list unchanged, and returns an
\* id map that sends each integer old id to the new id of its row; when the old
\* ids are pairwise distinct the map is a bijection from the old ids onto 1..N.
C18_AsStated ==
  (frame.fn = "resequence_rows" /\ frame.at = "returned") =>
     /\ ResequencedRowsOk(frame)
     /\ \A i \in DOMAIN frame.input :
          IsInt(frame.input[i].id) =>
            /\ frame.input[i].id \in DOMAIN frame.result.id_map
            /\ frame.result.id_map[frame.input[i].id] = i
     /\ PairwiseDistinct(frame.input) =>
          Bijection(frame.result.id_map, RowIds(frame.input), 1..Len(frame.input))

\* C18: resequence_rows returns N rows in the same order with ids 1..N, leaves
\* the other fields and the input list unchanged, and returns an id map whose
\* keys are the integer old ids, each sent to the new id of the last row that
\* carries it; when the old ids are pairwise distinct integers the map is a
\* bijection from the old ids onto 1..N.
C18_Resequence ==
  (frame.fn = "resequence_rows" /\ frame.at = "returned") =>
     /\ ResequencedRowsOk(frame)
     /\ DOMAIN frame.result.id_map = {x \in RowIds(frame.input) : IsInt(x)}
     /\ \A old \in DOMAIN frame.result.id_map :
          /\ frame.input[frame.result.id_map[old]].id = old
          /\ \A i \in DOMAIN frame.input :
               frame.input[i].id = old => i <= frame.result.id_map[old]
     /\ (PairwiseDistinct(frame.input) /\ \A i \in DOMAIN frame.input : IsInt(frame.input[i].id)) =>
          Bijection(frame.result.id_map, RowIds(frame.input), 1..Len(frame.input))

C18_Witness ==
  /\ frame.fn = "resequence_rows"
  /\ frame.at = "returned"
  /\ Len(frame.input) = NRows
  /\ PairwiseDistinct(frame.input)
  /\ \A i \in DOMAIN frame.input : IsInt(frame.input[i].id)
  /\ \E i \in DOMAIN frame.input : frame.result.id_map[frame.input[i].id] # frame.input[i].id

MaxRoots == 2
MaxWordIds == 2

\* word ids: two integers and a value that is no integer
WordIdValues == {NotInt, 2, 3}

\* roots are numbered by their position, which makes their order visible
RootsOf(ws) == [i \in DOMAIN ws |-> [root_id |-> i, word_ids |-> ws[i]]]

\* id maps: empty, partial, injective, not injective
IdMaps == {<<>>, 2 :> 1, 2 :> 1 @@ 3 :> 2, 2 :> 1 @@ 3 :> 1}

InitRemap ==
  \E k \in 0..MaxRoots :
    \E ws \in [1..k -> SeqsUpTo(WordIdValues, MaxWordIds)], id_map \in IdMaps :
      frame = [fn |-> "remap_roots_word_ids", at |-> "call", roots |-> RootsOf(ws),
               input |-> RootsOf(ws), id_map |-> id_map]

\* remap_roots_word_ids works on deep copies of the roots
CallRemap ==
  /\ frame.fn = "remap_roots_word_ids"
  /\ frame.at = "call"
  /\ frame' = [fn |-> "remap_roots_word_ids", at |-> "returned", roots |-> frame.roots,
               input |-> frame.input, id_map |-> frame.id_map,
               result |-> remap_roots_word_ids(frame.roots, frame.id_map)]
  /\ UNCHANGED pipeline

\* the word ids of a root that are keys of the map, and their images
MappedIds(word_ids, id_map) ==
  SelectSeq(word_ids, LAMBDA w : IsInt(w) /\ w \in DOMAIN id_map)

ImageOf(word_ids, id_map) ==
  [j \in DOMAIN MappedIds(word_ids, id_map) |-> id_map[MappedIds(word_ids, id_map)[j]]]

FirstIndex(seq, x) == CHOOSE j \in DOMAIN seq : seq[j] = x /\ \A k \in 1..(j - 1) : seq[k] # x

\* d lists the values of seq once each, in the order of their first occurrence
FirstOccurrenceOrder(d, seq) ==
  /\ \A a, b \in DOMAIN d : d[a] = d[b] => a = b
  /\ SeqToSet(d) = SeqToSet(seq)
  /\ \A a, b \in DOMAIN d : a < b => FirstIndex(seq, d[a]) < FirstIndex(seq, d[b])

\* C19: remap_roots_word_ids returns the roots in their original relative
\* order; every word_ids list is non-empty, without duplicates, made of values
\* of the id map, and is the image of the root's mapped ids in first-occurrence
\* order; a root none of whose word ids is a key of the map is absent.
C19_RootsRemapped ==
  (frame.fn = "remap_roots_word_ids" /\ frame.at = "returned") =>
     LET out == frame.result
         kept == {i \in DOMAIN frame.input :
                    MappedIds(frame.input[i].word_ids, frame.id_map) # <<>>}
     IN /\ \A a, b \in DOMAIN out : a < b => out[a].root_id < out[b].root_id
        /\ {out[k].root_id : k \in DOMAIN out} = kept
        /\ \A k \in DOMAIN out :
             /\ out[k].word_ids # <<>>
             /\ \A j \in DOMAIN out[k].word_ids :
                  out[k].word_ids[j] \in {frame.id_map[x] : x \in DOMAIN frame.id_map}
             /\ FirstOccurrenceOrder(out[k].word_ids,
                                     ImageOf(frame.input[out[k].root_id].word_ids, frame.id_map))
        /\ frame.roots = frame.input

C19_Witness ==
  /\ frame.fn = "remap_roots_word_ids"
  /\ frame.at = "returned"
  /\ Len(frame.input) = MaxRoots
  /\ Len(frame.result) = 1
  /\ frame.result[1].root_id = MaxRoots
  /\ Len(frame.input[MaxRoots].word_ids) = MaxWordIds
  /\ Len(frame.result[1].word_ids) = 1
  /\ frame.input[1].word_ids # <<>>

MaxSyn == 2
MaxCount == 2

\* A synonym as the cleaner reads it: its text in lower case, whether it is
\* written in upper case, and what surrounds it: nothing ("none"), blanks
\* ("blank", as in " board "), quotes or punctuation ("punct", as in
\* "'board'"), or punctuation with blanks inside ("punct_blank", as in
\* "( board )").
Padded(text, upper, pad) == [text |-> text, upper |-> upper, pad |-> pad]

Term(text, upper, padded) == Padded(text, upper, IF padded THEN "blank" ELSE "none")

\* texts: the lemma, a plain word, an "-ly" word, a code with digits
SynonymTexts == {"management", "leadership", "quickly", "e174"}

RawSynonyms == {Term(t, u, p) : t \in SynonymTexts, u \in BOOLEAN, p \in BOOLEAN}

\* normalize_text on a term: the blanks around it go, nothing else
normalize_term(term) == [term EXCEPT !.pad = IF @ = "blank" THEN "none" ELSE @]

\* normalize_synonym: normalize_text, then str.strip of quotes and
\* punctuation, then the runs of blanks collapsed; blanks that stood inside
\* the punctuation stay around the text
normalize_synonym(raw) ==
  [raw EXCEPT !.pad = IF normalize_term(raw).pad = "punct_blank" THEN "blank" ELSE "none"]

\* str.lower
lower(term) == [term EXCEPT !.upper = FALSE]

ends_with_ly(term) == term.text = "quickly"

has_digit(term) == term.text = "e174"

\* is_pos_compatible_synonym on one-word terms: an adverb must end in "ly"
\* ("leadership" is not on the allow-list), a verb must not
is_pos_compatible_synonym(term, pos) ==
  CASE pos = "adverb" -> ends_with_ly(lower(term))
    [] pos = "verb"   -> ~ends_with_ly(lower(term))
    [] OTHER -> TRUE

RECURSIVE clean_loop(_, _, _, _, _)
\* the loop of clean_synonyms_conservative over the remaining raw synonyms; the
\* digit test stands for the tests on the characters of a term (length,
\* symbols, digits, letters, words, period, blocklist)
clean_loop(synonyms, lemma_key, pos, max_count, output) ==
  IF synonyms = <<>> THEN output
  ELSE LET term == normalize_synonym(Head(synonyms))
           key == lower(term)
           seen == {lower(output[i]) : i \in DOMAIN output}
           skip == \/ key = lemma_key
                   \/ key \in seen
                   \/ has_digit(term)
                   \/ ~is_pos_compatible_synonym(term, pos)
       IN IF skip THEN clean_loop(Tail(synonyms), lemma_key, pos, max_count, output)
          ELSE IF Len(output) + 1 >= max_count THEN Append(output, term)
          ELSE clean_loop(Tail(synonyms), lemma_key, pos, max_count, Append(output, term))

clean_synonyms_conservative(synonyms, lemma, pos, max_count) ==
  clean_loop(synonyms, lower(normalize_term(lemma)), pos, max_count, <<>>)

InitClean ==
  \E k \in 0..MaxSyn :
    \E synonyms \in [1..k -> RawSynonyms], upper \in BOOLEAN,
       pos \in {"noun", "verb", "adverb"}, max_count \in 0..MaxCount :
      frame = [fn |-> "clean_synonyms_conservative", at |-> "call", synonyms |-> synonyms,
               lemma |-> Term("management", upper, TRUE), pos |-> pos,
               max_count |-> max_count]

CallClean ==
  /\ frame.fn = "clean_synonyms_conservative"
  /\ frame.at = "call"
  /\ frame' = [fn |-> "clean_synonyms_conservative", at |-> "returned",
               synonyms |-> frame.synonyms, lemma |-> frame.lemma, pos |-> frame.pos,
               max_count |-> frame.max_count,
               result |-> clean_synonyms_conservative(frame.synonyms, frame.lemma,
                                                      frame.pos, frame.max_count)]
  /\ UNCHANGED pipeline

\* the keys of the inputs, in input order
InputKeys(f) == [i \in DOMAIN f.synonyms |-> lower(normalize_synonym(f.synonyms[i]))]

\* what C20 says besides the length
CleanedEntriesOk(f) ==
  LET out == f.result
  IN /\ \A i \in DOMAIN out : lower(out[i]) # lower(normalize_term(f.lemma))
     /\ \A i, j \in DOMAIN out : lower(out[i]) = lower(out[j]) => i = j
     /\ \A i \in DOMAIN out : lower(out[i]) \in SeqToSet(InputKeys(f))
     /\ \A i, j \in DOMAIN out :
          i < j => FirstIndex(InputKeys(f), lower(out[i])) < FirstIndex(InputKeys(f), lower(out[j]))
     /\ \A i \in DOMAIN out : is_pos_compatible_synonym(out[i], f.pos)

\* C20: the list returned by clean_synonyms_conservative has no entry equal to
\* the lemma ignoring case, no two entries equal ignoring case, at most
\* max_count entries, the first-seen order of the surviving inputs, and only
\* entries for which is_pos_compatible_synonym holds.
C20_CleanedSynonyms ==
  (frame.fn = "clean_synonyms_conservative" /\ frame.at = "returned") =>
     /\ CleanedEntriesOk(frame)
     /\ Len(frame.result) <= frame.max_count

\* synonyms with every kind of surroundings
PaddedSynonyms ==
  {Padded(t, FALSE, p) : t \in {"management", "leadership"},
                         p \in {"none", "blank", "punct", "punct_blank"}}

\* clean_synonyms_conservative called on its own result, as merge_synonyms
\* calls it on the cleaned existing synonyms
InitCleanTwice ==
  \E k \in 0..MaxSyn :
    \E synonyms \in [1..k -> PaddedSynonyms], pos \in {"noun", "adverb"}, max_count \in 1..MaxCount :
      frame = [fn |-> "clean_twice", at |-> "call", synonyms |-> synonyms,
               lemma |-> Term("management", FALSE, FALSE), pos |-> pos,
               max_count |-> max_count, once |-> <<>>, twice |-> <<>>]

clean_again(cleaned, lemma, pos, max_count) ==
  [once |-> cleaned, twice |-> clean_synonyms_conservative(cleaned, lemma, pos, max_count)]

CallCleanTwice ==
  /\ frame.fn = "clean_twice"
  /\ frame.at = "call"
  /\ frame' = clean_again(clean_synonyms_conservative(frame.synonyms, frame.lemma, frame.pos,
                                                     frame.max_count),
                         frame.lemma, frame.pos, frame.max_count)
                 @@ [frame EXCEPT !.at = "returned"]
  /\ UNCHANGED pipeline

InitF ==
  /\ PipelineIdle
  /\ \/ InitResequence
     \/ InitRemap
     \/ InitClean
     \/ InitCleanTwice

NextF ==
  \/ CallResequence
  \/ CallRemap
  \/ CallClean
  \/ CallCleanTwice

SpecF == InitF /\ [][NextF]_vars

\* ---------------------------------------------------------------------------
\* The finalization of the stochastic pipeline: the run itself, and the two
\* audits of main() around the resequencing, on rows and roots of any kind.
\* ---------------------------------------------------------------------------
\* row ids before the resequencing: not dense, repeated, or no integer
AuditIds == {NotInt, 2, 3}

\* rows that pass the per-row checks, rows that do not, and rows that share
\* the skeletons of candidate "A"
AuditContents == {[ok |-> TRUE, sentences |-> "orig"], [ok |-> FALSE, sentences |-> "orig"],
                  [ok |-> TRUE, sentences |-> "A"]}

\* the word ids of a root: none, one, a repeated one, two, one that is no
\* integer, one that is the id of no row
AuditWordIds == {<<>>, <<2>>, <<2, 2>>, <<2, 3>>, <<NotInt, 3>>, <<4, 2>>}

InitFinalAudits ==
  \E n \in 0..NRows : \E ids \in [1..n -> AuditIds], content \in [1..n -> AuditContents] :
    \E k \in 0..2 : \E ws \in [1..k -> AuditWordIds] :
      frame = [fn |-> "final_audits", at |-> "called", cap |-> MaxCap, roots |-> RootsOf(ws),
               rows |-> [i \in 1..n |-> [id |-> ids[i], key |-> i, sens |-> FALSE,
                                         ok |-> content[i].ok, synonym |-> "orig",
                                         sentences |-> content[i].sentences]],
               code |-> "none"]

\* the exit code main() takes after the audits: 2 when the first audit of the
\* rows fails, 3 when an audit of the resequenced rows or of the remapped
\* roots fails, none when the outputs are staged for the promotion
final_audits_code(rs, roots, cap) ==
  IF ~audit_rows(rs, cap) THEN "2"
  ELSE IF ~audit_rows(resequence_rows(rs).remapped, cap) THEN "3"
  ELSE IF ~audit_roots(remap_roots_word_ids(roots, resequence_rows(rs).id_map),
                       resequence_rows(rs).remapped) THEN "3"
  ELSE "staged"

CallFinalAudits ==
  /\ frame.fn = "final_audits"
  /\ frame.at = "called"
  /\ frame' = [frame EXCEPT !.at = "returned",
                            !.code = final_audits_code(frame.rows, frame.roots, frame.cap)]
  /\ UNCHANGED pipeline

InitA == InitS \/ (PipelineIdle /\ InitFinalAudits)

NextA ==
  \/ frame = NoFrame /\ NextS
  \/ CallFinalAudits

SpecA == InitA /\ [][NextA]_vars

\* ---------------------------------------------------------------------------
\* The ledger: both pipelines, and read_checkpoint called on its own on a
\* ledger that holds blank lines and lines without an integer id.
\* ---------------------------------------------------------------------------
BlankLine == [blank |-> TRUE]

\* a replay that keeps the first record of an id
RECURSIVE replay_first_wins(_, _, _)
replay_first_wins(ledger, i, records) ==
  IF i > Len(ledger) THEN records
  ELSE IF ledger[i] = BlankLine THEN replay_first_wins(ledger, i + 1, records)
  ELSE IF IsInt(ledger[i].id) /\ ledger[i].id \notin DOMAIN records
    THEN replay_first_wins(ledger, i + 1,
                           [id \in DOMAIN records \cup {ledger[i].id} |->
                              IF id = ledger[i].id THEN ledger[i] ELSE records[id]])
  ELSE replay_first_wins(ledger, i + 1, records)

\* the loop of read_checkpoint from line i on: blank lines are skipped, a
\* line with an integer id is stored under its id
RECURSIVE replay_from(_, _, _)
replay_from(ledger, i, records) ==
  IF i > Len(ledger) THEN records
  ELSE IF ledger[i] = BlankLine THEN replay_from(ledger, i + 1, records)
  ELSE IF IsInt(ledger[i].id)
    THEN replay_from(ledger, i + 1,
                     [id \in DOMAIN records \cup {ledger[i].id} |->
                        IF id = ledger[i].id THEN ledger[i] ELSE records[id]])
  ELSE replay_from(ledger, i + 1, records)

\* read_checkpoint: the dict of records
read_checkpoint_records(ledger) == replay_from(ledger, 1, <<>>)

MaxLines == 4

LedgerLines == {BlankLine} \cup [id : {NotInt, 1, 2}, status : {"changed", "unchanged_failed_generation"}]

InitReadCheckpoint ==
  \E n \in 0..MaxLines : \E ledger \in [1..n -> LedgerLines] :
    frame = [fn |-> "read_checkpoint", at |-> "called", ledger |-> ledger, result |-> <<>>]

CallReadCheckpoint ==
  /\ frame.fn = "read_checkpoint"
  /\ frame.at = "called"
  /\ frame' = [frame EXCEPT !.at = "returned", !.result = read_checkpoint_records(frame.ledger)]
  /\ UNCHANGED pipeline

\* the pending computation on rows with repeated ids and ids that are no
\* integers, with every kind of limit
PendingRowIds == {NotInt, 1, 2, 3}
PendingLimits == {<<>>, <<-1>>, <<0>>, <<1>>, <<2>>}

InitPending ==
  \E n \in 0..(NRows + 1) : \E ids \in [1..n -> PendingRowIds] :
    \E processed \in SUBSET {1, 2}, limit \in PendingLimits :
      frame = [fn |-> "pending_ids", at |-> "called", rows |-> [i \in 1..n |-> [id |-> ids[i]]],
               processed_ids |-> processed, limit |-> limit, result |-> <<>>]

CallPending ==
  /\ frame.fn = "pending_ids"
  /\ frame.at = "called"
  /\ frame' = [frame EXCEPT !.at = "returned",
                            !.result = pending_ids_of(frame.rows, frame.processed_ids,
                                                      frame.limit)]
  /\ UNCHANGED pipeline

InitL == InitB \/ (PipelineIdle /\ (InitReadCheckpoint \/ InitPending))

NextL ==
  \/ frame = NoFrame /\ NextB
  \/ CallReadCheckpoint
  \/ CallPending

SpecL == InitL /\ [][NextL]_vars

\* ---------------------------------------------------------------------------
\* tools/text_utils.py on texts that are sequences of characters.
\* ---------------------------------------------------------------------------
LowerLetters ==
  {"a", "b", "c", "d", "e", "f", "g", "h", "i", "j", "k", "l", "m", "n", "o", "p", "q", "r",
   "s", "t", "u", "v", "w", "x", "y", "z"}
UpperLetters == {"A", "B", "I", "W"}

\* str.lower() on one character
lower_char(c) ==
  CASE c = "A" -> "a" [] c = "B" -> "b" [] c = "I" -> "i" [] c = "W" -> "w" [] OTHER -> c

text_lower(text) == [i \in DOMAIN text |-> lower_char(text[i])]

\* \w and \s of the regular expressions
is_word_char(c) == c \in LowerLetters \cup UpperLetters \cup {"1", "_"}

is_space(c) == c \in {" ", "\t"}

\* str.strip()
RECURSIVE strip(_)
strip(text) ==
  IF text = <<>> THEN text
  ELSE IF is_space(Head(text)) THEN strip(Tail(text))
  ELSE IF is_space(text[Len(text)]) THEN strip(SubSeq(text, 1, Len(text) - 1))
  ELSE text

\* re.sub(r"\s+", " ", text)
RECURSIVE collapse_spaces(_)
collapse_spaces(text) ==
  IF text = <<>> THEN text
  ELSE IF is_space(Head(text))
       THEN IF Len(text) > 1 /\ is_space(text[2]) THEN collapse_spaces(Tail(text))
            ELSE <<" ">> \o collapse_spaces(Tail(text))
       ELSE <<Head(text)>> \o collapse_spaces(Tail(text))

normalize_text(text) == strip(collapse_spaces(text))

\* end of the maximal run of word characters that starts at i
word_run_end(text, i) ==
  CHOOSE j \in i..Len(text) :
    /\ \A k \in i..j : is_word_char(text[k])
    /\ j = Len(text) \/ ~is_word_char(text[j + 1])

\* TOKEN_RE.findall from position i: \w+(?:'\w+)? or one [^\w\s]
RECURSIVE tokens_from(_, _)
tokens_from(text, i) ==
  IF i > Len(text) THEN <<>>
  ELSE IF is_space(text[i]) THEN tokens_from(text, i + 1)
  ELSE IF is_word_char(text[i])
       THEN LET j == word_run_end(text, i)
                k == IF j + 2 <= Len(text) /\ text[j + 1] = "'" /\ is_word_char(text[j + 2])
                     THEN word_run_end(text, j + 2) ELSE j
            IN <<SubSeq(text, i, k)>> \o tokens_from(text, k + 1)
       ELSE <<SubSeq(text, i, i)>> \o tokens_from(text, i + 1)

\* a tokenizer that splits on white space only
tokenize_on_spaces(text) ==
  LET starts == {i \in DOMAIN text : ~is_space(text[i]) /\ (i = 1 \/ is_space(text[i - 1]))}
      end(i) == CHOOSE j \in i..Len(text) :
                  /\ \A k \in i..j : ~is_space(text[k])
                  /\ j = Len(text) \/ is_space(text[j + 1])
      nth(n) == CHOOSE i \in starts : Cardinality({s \in starts : s < i}) = n - 1
  IN [n \in 1..Cardinality(starts) |-> SubSeq(text, nth(n), end(nth(n)))]

tokenize(text) == tokens_from(text, 1)

\* WORDLIKE_RE.fullmatch on a token of tokenize
is_wordlike(token) == token # <<>> /\ is_word_char(token[1])

wordlike_count(tokens) == Cardinality({i \in DOMAIN tokens : is_wordlike(tokens[i])})

\* an index that counts the word-like tokens only
find_cloze_index_among_words(text, lemma) ==
  LET target == text_lower(strip(lemma))
      words == SelectSeq(tokenize(text), is_wordlike)
      hits == {i \in DOMAIN words : text_lower(words[i]) = target}
  IN IF target = <<>> \/ hits = {} THEN <<>>
     ELSE <<(CHOOSE i \in hits : \A j \in hits : i <= j) - 1>>

\* find_cloze_index: <<>> for None, <<idx>> for a zero-based index
text_find_cloze_index(text, lemma) ==
  LET target == text_lower(strip(lemma))
      toks == tokenize(text)
      hits == {i \in DOMAIN toks : text_lower(toks[i]) = target}
  IN IF target = <<>> \/ hits = {} THEN <<>>
     ELSE <<(CHOOSE i \in hits : \A j \in hits : i <= j) - 1>>

\* validate_sentence: the list of reasons
text_validate_sentence(text, lemma) ==
  LET count == wordlike_count(tokenize(text))
  IN (IF text_find_cloze_index(text, lemma) = <<>> THEN <<"lemma_missing">> ELSE <<>>)
     \o (IF count < MIN_WORDLIKE_COUNT THEN <<"word_count_lt_8">> ELSE <<>>)
     \o (IF count > MAX_WORDLIKE_COUNT THEN <<"word_count_gt_14">> ELSE <<>>)

COMPLEX_MARKERS ==
  { <<"a","l","t","h","o","u","g","h">>, <<"w","h","i","l","e">>, <<"b","e","c","a","u","s","e">>,
    <<"u","n","l","e","s","s">>, <<"s","i","n","c","e">>, <<"i","f">>, <<"w","h","e","n">>,
    <<"a","f","t","e","r">>, <<"b","e","f","o","r","e">>, <<"t","h","o","u","g","h">>,
    <<"w","h","e","r","e","a","s">> }

\* diversity_signature; punctuation_pattern is read off terminal and the flags
diversity_signature(text) ==
  LET toks == tokenize(text)
      words == SelectSeq(toks, is_wordlike)
  IN [has_question |-> \E i \in DOMAIN text : text[i] = "?",
      has_quote |-> \E i \in DOMAIN text : text[i] = "\"",
      has_complex_clause |-> \E i \in DOMAIN words : text_lower(words[i]) \in COMPLEX_MARKERS,
      starts_with |-> IF words = <<>> THEN <<>> ELSE text_lower(words[1]),
      terminal |-> IF toks = <<>> THEN <<>> ELSE toks[Len(toks)]]

\* sentence_skeleton: the tokens joined by single spaces, kept as the token list
LemmaSlot == <<"{", "L", "E", "M", "M", "A", "}">>

sentence_skeleton(text, lemma) ==
  LET target == text_lower(strip(lemma))
      toks == tokenize(text)
  IN [i \in DOMAIN toks |->
        IF target # <<>> /\ text_lower(toks[i]) = target THEN LemmaSlot ELSE text_lower(toks[i])]

\* length of the longest common run of a from i and b from j
RECURSIVE common_run(_, _, _, _)
common_run(a, i, b, j) ==
  IF i > Len(a) \/ j > Len(b) THEN 0
  ELSE IF a[i] # b[j] THEN 0
  ELSE 1 + common_run(a, i + 1, b, j + 1)

\* difflib.SequenceMatcher.get_matching_blocks, as the number of matched
\* characters: the longest block (earliest in a, then earliest in b), then the
\* same to its left and to its right
RECURSIVE matched_chars(_, _)
matched_chars(a, b) ==
  LET starts == {p \in (DOMAIN a) \X (DOMAIN b) :
                   /\ a[p[1]] = b[p[2]]
                   /\ p[1] = 1 \/ p[2] = 1 \/ a[p[1] - 1] # b[p[2] - 1]}
      run == [p \in starts |-> common_run(a, p[1], b, p[2])]
      longest == CHOOSE k \in {run[p] : p \in starts} : \A p \in starts : run[p] <= k
      top == {p \in starts : run[p] = longest}
      best == CHOOSE p \in top :
                \A q \in top : p[1] < q[1] \/ (p[1] = q[1] /\ p[2] <= q[2])
  IN IF starts = {} THEN 0
     ELSE run[best]
          + matched_chars(SubSeq(a, 1, best[1] - 1), SubSeq(b, 1, best[2] - 1))
          + matched_chars(SubSeq(a, best[1] + run[best], Len(a)),
                          SubSeq(b, best[2] + run[best], Len(b)))

\* pairwise_similarity(left, right) >= threshold, the threshold in hundredths
similar_at_least(left, right, threshold) ==
  LET a == collapse_spaces(text_lower(strip(left)))
      b == collapse_spaces(text_lower(strip(right)))
  IN IF a = <<>> /\ b = <<>> THEN TRUE
     ELSE 200 * matched_chars(a, b) >= threshold * (Len(a) + Len(b))

has_near_duplicates(sentences, threshold) ==
  \E i, j \in DOMAIN sentences : i < j /\ similar_at_least(sentences[i], sentences[j], threshold)

\* ---------------------------------------------------------------------------
\* improve_seed_stochastic.py: the validation gate of one candidate and the
\* attempts and commit of one row, on candidates written out in characters.
\* ---------------------------------------------------------------------------
near_dup_threshold_pct == 90

first_word(text) ==
  LET words == SelectSeq(tokenize(text), is_wordlike)
  IN IF words = <<>> THEN <<>> ELSE text_lower(words[1])

sentence_terminal(text) ==
  LET toks == tokenize(text) IN IF toks = <<>> THEN <<>> ELSE toks[Len(toks)]

\* every reason code of validate_sentence_set_quality, in the order of sorted()
ReasonCodes ==
  << "duplicate_sentences", "empty_sentence", "insufficient_set_variety",
     "invalid_sentence_count", "near_duplicate_sentences",
     "sentence_0_lemma_missing", "sentence_0_word_count_gt_14", "sentence_0_word_count_lt_8",
     "sentence_1_lemma_missing", "sentence_1_word_count_gt_14", "sentence_1_word_count_lt_8",
     "sentence_2_lemma_missing", "sentence_2_word_count_gt_14", "sentence_2_word_count_lt_8" >>

\* f"sentence_{idx}_{code}"
sentence_code(idx, code) ==
  ReasonCodes[6 + 3 * idx + (CASE code = "lemma_missing" -> 0
                               [] code = "word_count_gt_14" -> 1
                               [] code = "word_count_lt_8" -> 2)]

\* a result that keeps the reasons as appended
unsorted_reasons(reasons) == reasons

\* sorted(set(reasons))
sorted_set(reasons) == SelectSeq(ReasonCodes, LAMBDA c : c \in SeqToSet(reasons))

RECURSIVE FlattenSeq(_)
FlattenSeq(ss) == IF ss = <<>> THEN <<>> ELSE Head(ss) \o FlattenSeq(Tail(ss))

validate_sentence_set_quality(sentences, lemma, threshold) ==
  IF Len(sentences) # 3 THEN [ok |-> FALSE, reasons |-> <<"invalid_sentence_count">>]
  ELSE
    LET normalized == [i \in 1..3 |-> normalize_text(sentences[i])]
        signatures == [i \in 1..3 |-> diversity_signature(normalized[i])]
        structure_keys == [i \in 1..3 |-> <<signatures[i].has_question, signatures[i].has_quote,
                                             signatures[i].has_complex_clause>>]
        starts == [i \in 1..3 |-> first_word(normalized[i])]
        terminals == [i \in 1..3 |-> sentence_terminal(normalized[i])]
        same_start == Cardinality(SeqToSet(starts)) = 1
        same_terminal == Cardinality(SeqToSet(terminals)) = 1
        same_structure == Cardinality(SeqToSet(structure_keys)) = 1
        lowered == [i \in 1..3 |-> text_lower(normalized[i])]
        sentence_reasons(i) ==
          LET rs == text_validate_sentence(normalized[i], lemma)
          IN [k \in DOMAIN rs |-> sentence_code(i - 1, rs[k])]
        reasons ==
          (IF \E i \in 1..3 : normalized[i] = <<>> THEN <<"empty_sentence">> ELSE <<>>)
          \o FlattenSeq([i \in 1..3 |-> sentence_reasons(i)])
          \o (IF Cardinality(SeqToSet(lowered)) # Len(lowered)
              THEN <<"duplicate_sentences">> ELSE <<>>)
          \o (IF has_near_duplicates(normalized, threshold)
              THEN <<"near_duplicate_sentences">> ELSE <<>>)
          \o (IF same_start /\ same_terminal /\ same_structure
              THEN <<"insufficient_set_variety">> ELSE <<>>)
    IN [ok |-> reasons = <<>>, reasons |-> sorted_set(reasons)]

\* the blocklist, as far as it can be spelled with the letters of the model
BlockedWords == { <<"b", "a", "s", "t", "a", "r", "d">> }

\* is_text_blocked: a blocked pattern matches between word boundaries
is_text_blocked(text) ==
  LET toks == tokenize(normalize_text(text))
  IN \E i \in DOMAIN toks : text_lower(toks[i]) \in BlockedWords

candidate_skeletons(sentences, lemma) ==
  [i \in DOMAIN sentences |-> sentence_skeleton(sentences[i], lemma)]

\* the literal 6 of merge_synonyms and row_prompt_context
MAX_SYNONYMS == 6

RECURSIVE merge_loop(_, _)
\* the loop of merge_synonyms over candidate + existing
merge_loop(terms, merged) ==
  IF terms = <<>> THEN merged
  ELSE IF lower(Head(terms)) \in {lower(merged[i]) : i \in DOMAIN merged}
       THEN merge_loop(Tail(terms), merged)
  ELSE IF Len(merged) + 1 >= MAX_SYNONYMS THEN Append(merged, Head(terms))
  ELSE merge_loop(Tail(terms), Append(merged, Head(terms)))

\* a merge that lists the existing synonyms first
merge_synonyms_existing_first(generated_synonyms, cleaned_existing_synonyms, lemma, pos) ==
  merge_loop(clean_synonyms_conservative(cleaned_existing_synonyms, lemma, pos, MAX_SYNONYMS)
             \o clean_synonyms_conservative(generated_synonyms, lemma, pos, MAX_SYNONYMS), <<>>)

merge_synonyms(generated_synonyms, cleaned_existing_synonyms, lemma, pos) ==
  merge_loop(clean_synonyms_conservative(generated_synonyms, lemma, pos, MAX_SYNONYMS)
             \o clean_synonyms_conservative(cleaned_existing_synonyms, lemma, pos, MAX_SYNONYMS), <<>>)

\* row_prompt_context: the cleaned existing synonyms of the row
row_prompt_context(row) ==
  clean_synonyms_conservative(row.synonym, row.lemma_term, row.pos, MAX_SYNONYMS)

\* an entry list that takes the index among the words only
sentence_entries_by_words(sentences, lemma) ==
  [entries |-> [i \in DOMAIN sentences |->
                  [text |-> sentences[i],
                   cloze_index |->
                     LET words == SelectSeq(tokenize(sentences[i]), is_wordlike)
                         hits == {k \in DOMAIN words : text_lower(words[k]) = text_lower(strip(lemma))}
                     IN IF hits = {} THEN 0 ELSE (CHOOSE k \in hits : \A m \in hits : k <= m) - 1]],
   errors |-> <<>>]

sentence_entries_from_texts(sentences, lemma) ==
  LET cloze(i) == text_find_cloze_index(sentences[i], lemma)
      missing == SelectSeq([i \in DOMAIN sentences |-> i], LAMBDA i : cloze(i) = <<>>)
  IN [entries |-> [i \in DOMAIN sentences |->
                     [text |-> sentences[i],
                      cloze_index |-> IF cloze(i) = <<>> THEN 0 ELSE cloze(i)[1]]],
      errors |-> [k \in DOMAIN missing |-> <<"cloze_missing", missing[k] - 1>>]]

\* words joined by single blanks; One turns letters into one-letter words
RECURSIVE Join(_)
Join(words) ==
  IF words = <<>> THEN <<>>
  ELSE IF Len(words) = 1 THEN words[1]
  ELSE words[1] \o <<" ">> \o Join(Tail(words))

One(letters) == [i \in DOMAIN letters |-> <<letters[i]>>]

\* the lemma of the row under test, and sentences around it
Lemma == <<"w">>
S1 == Join(One(<<"a", "b", "c", "d", "e", "f", "g", "w">>)) \o <<".">>
S1x == Join(One(<<"a", "b", "c", "d", "e", "f", "g", "w">>)) \o <<"!">>
S2 == Join(<< <<"i", "f">> >> \o One(<<"w", "b", "c", "d", "e", "f", "g", "h">>)) \o <<"?">>
S3 == <<"\"">> \o Join(One(<<"W", "i", "s", "t", "o", "r", "e", "u">>)) \o <<"!", "\"">>
S4 == Join(One(<<"h", "g", "f", "e", "d", "c", "b", "w", "a">>)) \o <<".">>
S5 == Join(<< <<"w", "h", "e", "n">> >> \o One(<<"a", "w", "c", "d", "e", "f", "g">>)) \o <<"?">>
S6 == <<"\"">> \o Join(One(<<"n", "o", "r", "s", "t", "u", "w", "a">>)) \o <<".", "\"">>
S7 == Join(One(<<"a", "b", "c", "d", "e", "f", "g", "h">>)) \o <<".">>
S8 == Join(<< <<"a">>, <<"b", "a", "s", "t", "a", "r", "d">> >>
           \o One(<<"c", "d", "e", "f", "g", "w">>)) \o <<".">>

\* candidate sentence lists: two that pass every check, a near-duplicate
\* pair, a short list, a sentence without the lemma, a blocked sentence, a
\* near-duplicate pair with a blocked sentence, a blocked sentence next to
\* the sentence whose skeleton the counter holds
GoodSentences == <<S1, S2, S3>>
CandidateSentences ==
  { GoodSentences, <<S4, S5, S6>>, <<S1, S1x, S3>>, <<S1, S2>>, <<S1, S2, S7>>, <<S8, S2, S3>>,
    <<S1, S1x, S8>>, <<S1, S8, S3>> }

\* the verdicts of validate_sentence_set_quality on the candidate lists,
\* computed once
set_quality ==
  [s \in CandidateSentences |->
     validate_sentence_set_quality(s, Lemma, near_dup_threshold_pct)]

\* a gate that tests the skeleton cap before the blocklist
candidate_verdict_cap_first(row, quality, blocked, v, merged_synonyms, made) ==
  LET fail(codes) == [ok |-> FALSE, updated |-> row, error_codes |-> codes, skeletons |-> <<>>]
  IN IF ~quality.ok THEN fail([k \in DOMAIN quality.reasons |-> <<quality.reasons[k]>>])
     ELSE IF v.violates
          THEN fail(<< <<"global_skeleton_cap_exceeded">> >>
                    \o [k \in 1..Min(2, Len(v.offenders)) |-> <<"skeleton_cap", v.offenders[k]>>])
     ELSE IF blocked # {}
          THEN fail(<< <<"blocked", (CHOOSE i \in blocked : \A j \in blocked : i <= j) - 1>> >>)
     ELSE IF merged_synonyms = <<>> THEN fail(<< <<"synonyms_empty_after_cleanup">> >>)
     ELSE IF made.errors # <<>> THEN fail(made.errors)
     ELSE [ok |-> TRUE,
           updated |-> [row EXCEPT !.sentences = made.entries, !.synonym = merged_synonyms],
           error_codes |-> <<>>,
           skeletons |-> v.skeletons]

\* the returns of process_candidate, in the order of the source, from what
\* its five checks computed
candidate_verdict(row, quality, blocked, v, merged_synonyms, made) ==
  LET fail(codes) == [ok |-> FALSE, updated |-> row, error_codes |-> codes, skeletons |-> <<>>]
  IN IF ~quality.ok THEN fail([k \in DOMAIN quality.reasons |-> <<quality.reasons[k]>>])
     ELSE IF blocked # {}
          THEN fail(<< <<"blocked", (CHOOSE i \in blocked : \A j \in blocked : i <= j) - 1>> >>)
     ELSE IF v.violates
          THEN fail(<< <<"global_skeleton_cap_exceeded">> >>
                    \o [k \in 1..Min(2, Len(v.offenders)) |-> <<"skeleton_cap", v.offenders[k]>>])
     ELSE IF merged_synonyms = <<>> THEN fail(<< <<"synonyms_empty_after_cleanup">> >>)
     ELSE IF made.errors # <<>> THEN fail(made.errors)
     ELSE [ok |-> TRUE,
           updated |-> [row EXCEPT !.sentences = made.entries, !.synonym = merged_synonyms],
           error_codes |-> <<>>,
           skeletons |-> v.skeletons]

\* validate_sentence_set_quality at the threshold of the pipeline, read from
\* the table for the lists it holds
candidate_quality(sentences, lemma) ==
  IF lemma = Lemma /\ sentences \in DOMAIN set_quality THEN set_quality[sentences]
  ELSE validate_sentence_set_quality(sentences, lemma, near_dup_threshold_pct)

\* the five checks of process_candidate on the normalized lemma
process_candidate_at(row, lemma, sentences, generated_synonyms, cleaned_existing_synonyms, counter, cap) ==
  candidate_verdict(row,
                    candidate_quality(sentences, lemma),
                    {i \in DOMAIN sentences : is_text_blocked(sentences[i])},
                    violates_global_skeleton_cap(candidate_skeletons(sentences, lemma), counter, cap),
                    merge_synonyms(generated_synonyms, cleaned_existing_synonyms,
                                   row.lemma_term, row.pos),
                    sentence_entries_from_texts(sentences, lemma))

\* process_candidate on a candidate written out: the row carries its lemma
\* as the sentence checks read it (lemma) and as the synonym cleaner reads it
\* (lemma_term).  An error code is a string, or a pair for a code that embeds
\* an index or a skeleton.
process_candidate_row(row, sentences, generated_synonyms, cleaned_existing_synonyms, counter, cap) ==
  process_candidate_at(row, normalize_text(row.lemma), sentences, generated_synonyms,
                       cleaned_existing_synonyms, counter, cap)

\* generated synonyms: the windows of a list that holds the lemma, a padded
\* and an upper-case entry, an entry with digits and seven clean entries
GenPool ==
  << Term("management", FALSE, FALSE), Term("leadership", FALSE, TRUE), Term("board", TRUE, FALSE),
     Term("e174", FALSE, FALSE), Term("team", FALSE, FALSE), Term("staff", FALSE, FALSE),
     Term("council", FALSE, FALSE), Term("office", FALSE, FALSE), Term("direction", FALSE, FALSE) >>

ExistingPool ==
  << Term("e174", FALSE, TRUE), Term("board", FALSE, FALSE), Term("leadership", TRUE, FALSE),
     Term("admin", FALSE, TRUE) >>

\* the prefixes and the suffixes of a list
Windows(pool) ==
  {SubSeq(pool, 1, j) : j \in 0..Len(pool)} \cup {SubSeq(pool, i, Len(pool)) : i \in 1..Len(pool)}

\* what a generator call gives: an error, or sentences and synonyms
Payload(err, sentences, synonyms) == [err |-> err, sentences |-> sentences, synonyms |-> synonyms]

\* a generated synonym that is the lemma between brackets and blanks
BracketedLemma == Padded("management", FALSE, "punct_blank")

Payloads ==
  {Payload(TRUE, <<>>, <<>>)}
  \cup {Payload(FALSE, GoodSentences, g) : g \in Windows(GenPool)}
  \cup {Payload(FALSE, s, SubSeq(GenPool, 1, 3)) : s \in CandidateSentences}
  \cup {Payload(FALSE, GoodSentences, <<BracketedLemma>>)}

SkeletonUniverse ==
  UNION {SeqToSet(candidate_skeletons(s, Lemma)) : s \in CandidateSentences}

\* one pending row with its attempt state, the counter and the cap
InitRow ==
  \E synonym \in Windows(ExistingPool), seeded \in 0..2 :
    frame = [fn |-> "row", at |-> "attempts",
             row |-> [id |-> 1, lemma |-> Lemma \o <<" ">>,
                      lemma_term |-> Term("management", TRUE, TRUE), pos |-> "noun",
                      synonym |-> synonym,
                      sentences |-> [i \in 1..3 |-> [text |-> S7, cloze_index |-> 0]]],
             original |-> <<>>,
             skeleton_counter |-> [s \in SkeletonUniverse |->
                                     IF s = sentence_skeleton(S1, Lemma) THEN seeded ELSE 0],
             counter_before |-> <<>>,
             global_skeleton_cap |-> 2, local_retries |-> 1, cloud_retries |-> 1,
             state |-> [accepted |-> FALSE, attempts |-> 0, error_codes |-> <<>>,
                        candidate |-> <<>>, skeletons |-> <<>>],
             last |-> <<>>]

\* the attempt state after one generator call
attempt_state(frame_now, payload, res) ==
  LET counted == [frame_now.state EXCEPT !.attempts = @ + 1]
  IN IF payload.err
     THEN [frame_now EXCEPT !.state = [counted EXCEPT !.error_codes = Append(@, <<"err">>)],
                            !.last = <<>>]
     ELSE IF ~res.ok
     THEN [frame_now EXCEPT !.state = [counted EXCEPT !.error_codes = @ \o res.error_codes],
                            !.last = <<[payload |-> payload, result |-> res]>>]
     ELSE [frame_now EXCEPT !.state = [counted EXCEPT !.accepted = TRUE,
                                                      !.candidate = <<res.updated>>,
                                                      !.skeletons = res.skeletons],
                            !.last = <<[payload |-> payload, result |-> res]>>]

\* one round of the validation loop for the row: count the attempt, then
\* record the error or the verdict of process_candidate
AttemptRow(payload) ==
  /\ frame.fn = "row"
  /\ frame.at = "attempts"
  /\ ~frame.state.accepted
  /\ frame.state.attempts < frame.local_retries + frame.cloud_retries
  /\ frame' = attempt_state(frame, payload,
                            process_candidate_row(frame.row, payload.sentences, payload.synonyms,
                                                  row_prompt_context(frame.row),
                                                  frame.skeleton_counter,
                                                  frame.global_skeleton_cap))
  /\ UNCHANGED pipeline

\* the commit loop for the row
CommitAttempts ==
  /\ frame.fn = "row"
  /\ frame.at = "attempts"
  /\ frame.state.accepted \/ frame.state.attempts = frame.local_retries + frame.cloud_retries
  /\ frame' = [frame EXCEPT
                 !.at = "committed",
                 !.original = <<frame.row>>,
                 !.counter_before = <<frame.skeleton_counter>>,
                 !.row = IF frame.state.accepted /\ frame.state.candidate # <<>>
                         THEN frame.state.candidate[1] ELSE frame.row,
                 !.skeleton_counter =
                     IF frame.state.accepted /\ frame.state.candidate # <<>>
                     THEN [s \in SkeletonUniverse |->
                             @[s] + Cardinality({k \in DOMAIN frame.state.skeletons :
                                                   frame.state.skeletons[k] = s})]
                     ELSE @]
  /\ UNCHANGED pipeline

\* the sensitive lemmas, as far as they can be spelled with the letters of
\* the model
SENSITIVE_LEMMA_EXACT == { <<"n", "a", "z", "i">> }

is_sensitive_lemma(lemma) == text_lower(normalize_text(lemma)) \in SENSITIVE_LEMMA_EXACT

\* the errors audit_rows appends for the sentences of a row
audit_sentence_errors(entries, texts, lemma) ==
  FlattenSeq([i \in DOMAIN entries |->
     (IF text_validate_sentence(texts[i], lemma) # <<>> THEN <<"sentence_invalid">> ELSE <<>>)
     \o (IF \/ text_find_cloze_index(texts[i], lemma) = <<>>
            \/ entries[i].cloze_index # text_find_cloze_index(texts[i], lemma)[1]
         THEN <<"cloze_mismatch">> ELSE <<>>)
     \o (IF is_text_blocked(texts[i]) THEN <<"blocked">> ELSE <<>>)])

\* the errors audit_rows appends after the sentences of a row: the set
\* quality, the synonyms cleaned once more, the skeleton counts against the cap
audit_set_errors(row, texts, lemma, cap) ==
  (IF ~candidate_quality(texts, lemma).ok THEN <<"set">> ELSE <<>>)
  \o (IF clean_synonyms_conservative([i \in DOMAIN row.synonym |-> normalize_term(row.synonym[i])],
                                     row.lemma_term, row.pos, MAX_SYNONYMS) = <<>>
      THEN <<"synonym_empty">> ELSE <<>>)
  \o (IF \E i \in DOMAIN texts :
           Cardinality({j \in 1..i : sentence_skeleton(texts[j], lemma)
                                       = sentence_skeleton(texts[i], lemma)}) > cap
      THEN <<"skeleton_cap_exceeded">> ELSE <<>>)

\* audit_rows on one row, with a skeleton counter that starts empty
audit_row_errors(row, lemma, texts, cap) ==
  (IF is_sensitive_lemma(lemma) THEN <<"sensitive_lemma_present">> ELSE <<>>)
  \o (IF is_text_blocked(lemma) THEN <<"lemma_blocked">> ELSE <<>>)
  \o (IF Len(row.sentences) # 3 THEN <<"invalid_sentence_count">>
      ELSE audit_sentence_errors(row.sentences, texts, lemma)
           \o audit_set_errors(row, texts, lemma, cap))

audit_row(row, cap) ==
  audit_row_errors(row, normalize_text(row.lemma),
                   [i \in DOMAIN row.sentences |-> normalize_text(row.sentences[i].text)], cap)

\* ------------------------------ process_item and apply_deterministic_fix on texts
\* the final hard guard of enforce_sentence_generation
hard_guard_sentence(lemma) ==
  <<"W", "h", "e", "n", " ", "a", " ", "c", "r", "i", "s", "i", "s", " ", "h", "i", "t", "s",
  " ", "a", "f", "t", "e", "r", " ", "m", "i", "d", "n", "i", "g", "h", "t", ",", " ", "w",
  "h", "a", "t", " ">> \o lemma \o <<" ", "k", "e", "e", "p", "s", " ", "t", "h", "e", " ",
  "t", "e", "a", "m", " ", "a", "l", "i", "g", "n", "e", "d", " ", "a", "n", "d", " ", "c",
  "a", "l", "m", "?">>

\* two of the noun templates of fallback_sentence: 15 and 14 word-like tokens
noun_complex_template(lemma) ==
  <<"W", "h", "i", "l", "e", " ", "t", "h", "e", " ", "t", "e", "a", "m", " ", "h", "a", "d",
  " ", "e", "n", "o", "u", "g", "h", " ", "t", "a", "l", "e", "n", "t", ",", " ", "p", "o",
  "o", "r", " ">> \o lemma \o <<" ", "k", "e", "p", "t", " ", "s", "m", "a", "l", "l", " ",
  "i", "s", "s", "u", "e", "s", " ", "f", "r", "o", "m", " ", "b", "e", "i", "n", "g", " ",
  "r", "e", "s", "o", "l", "v", "e", "d", " ", "q", "u", "i", "c", "k", "l", "y", ".">>

noun_contextual_template(lemma) ==
  <<"I", "n", " ", "a", " ", "l", "a", "t", "e", "-", "n", "i", "g", "h", "t", " ", "p", "l",
  "a", "n", "n", "i", "n", "g", " ", "c", "a", "l", "l", ",", " ", "s", "t", "e", "a", "d",
  "y", " ">> \o lemma \o <<" ", "k", "e", "p", "t", " ", "t", "h", "e", " ", "l", "a", "u",
  "n", "c", "h", " ", "f", "r", "o", "m", " ", "s", "l", "i", "p", "p", "i", "n", "g", " ",
  "a", "g", "a", "i", "n", ".">>

FallbackTemplates == {"noun_complex", "noun_contextual"}

text_fallback_sentence(lemma, template) ==
  IF template = "noun_complex" THEN noun_complex_template(lemma)
  ELSE noun_contextual_template(lemma)

\* a sentence of 15 word-like tokens with the lemma, and the sentences a row
\* can hold before the in-place pipeline reaches it
S15 == Join(One(<<"a", "b", "c", "d", "e", "f", "g", "w", "h", "i", "l", "n", "o", "r", "s">>))
       \o <<".">>
ItemSentences == {S1, S2, S3, S7, S15}

\* the answers of the sentence generator: none, a valid one, an invalid one
ItemAnswers == {<<>>, S4, S7}

\* every text a row of the model can hold when process_item returns, with
\* the verdicts of validate_sentence and find_cloze_index, computed once
ItemTexts ==
  ItemSentences \cup ItemAnswers
  \cup {text_fallback_sentence(Lemma, t) : t \in FallbackTemplates} \cup {hard_guard_sentence(Lemma)}

item_checks ==
  [t \in ItemTexts |-> [reasons |-> text_validate_sentence(t, Lemma),
                        cloze |-> text_find_cloze_index(t, Lemma)]]

item_validate_sentence(text, lemma) ==
  IF lemma = Lemma /\ text \in DOMAIN item_checks THEN item_checks[text].reasons
  ELSE text_validate_sentence(text, lemma)

item_find_cloze_index(text, lemma) ==
  IF lemma = Lemma /\ text \in DOMAIN item_checks THEN item_checks[text].cloze
  ELSE text_find_cloze_index(text, lemma)

\* enforce_sentence_generation on texts: the generator's answer (<<>> when
\* every call fails) if it is valid, else the fallback template if it is
\* valid, else the hard guard
text_enforce_sentence_generation(answer, lemma, template) ==
  IF answer # <<>> /\ item_validate_sentence(answer, lemma) = <<>> THEN answer
  ELSE IF item_validate_sentence(text_fallback_sentence(lemma, template), lemma) = <<>>
       THEN text_fallback_sentence(lemma, template)
  ELSE hard_guard_sentence(lemma)

\* the final loop of process_item and of apply_deterministic_fix
final_sentences(texts, lemma) ==
  [i \in DOMAIN texts |->
     [text |-> texts[i],
      cloze_index |-> IF item_find_cloze_index(texts[i], lemma) = <<>> THEN 0
                      ELSE item_find_cloze_index(texts[i], lemma)[1]]]

final_validation_errors(texts, lemma) ==
  FlattenSeq([i \in DOMAIN texts |->
     (IF item_validate_sentence(texts[i], lemma) # <<>>
        THEN << <<"final_sentence_invalid", i - 1, item_validate_sentence(texts[i], lemma)>> >>
        ELSE <<>>)
     \o (IF item_find_cloze_index(texts[i], lemma) = <<>>
           THEN << <<"final_sentence_cloze_missing", i - 1>> >> ELSE <<>>)])

\* a row of the in-place pipeline before process_item or
\* apply_deterministic_fix
InitItem ==
  \E fn \in {"process_item", "apply_deterministic_fix"}, texts \in [1..3 -> ItemSentences] :
    frame = [fn |-> fn, at |-> "called",
             row |-> [id |-> 1, lemma |-> Lemma \o <<" ">>,
                      sentences |-> [i \in 1..3 |-> [text |-> texts[i], cloze_index |-> 0]]],
             original_texts |-> texts,
             local_reasons |-> <<>>, rewrite_indices |-> {}, errors |-> <<>>]

\* process_item / apply_deterministic_fix: the sentences with a local reason
\* and the ones the review or the style targets add are rewritten by
\* enforce_sentence_generation; ensure_set_constraints then leaves the
\* sentences, or rewrites some more, or forces templates that it does not
\* validate; the final loop writes the entries
ProcessItem(extra, answer, template, forced) ==
  /\ frame.fn \in {"process_item", "apply_deterministic_fix"}
  /\ frame.at = "called"
  /\ LET lemma == normalize_text(frame.row.lemma)
         texts == frame.original_texts
         local_reasons == [i \in 1..3 |-> item_validate_sentence(texts[i], lemma)]
         rewrite_indices == {i \in 1..3 : local_reasons[i] # <<>>} \cup extra
         given == IF frame.fn = "apply_deterministic_fix" THEN <<>> ELSE answer
         rewritten == [i \in 1..3 |->
                         IF i \in rewrite_indices
                         THEN text_enforce_sentence_generation(given, lemma, template)
                         ELSE texts[i]]
         constrained == [i \in 1..3 |->
                           IF i \in forced THEN text_fallback_sentence(lemma, template)
                           ELSE rewritten[i]]
     IN frame' = [frame EXCEPT
                    !.at = "returned",
                    !.row = [@ EXCEPT !.sentences = final_sentences(constrained, lemma)],
                    !.local_reasons = local_reasons,
                    !.rewrite_indices = rewrite_indices \cup forced,
                    !.errors = final_validation_errors(constrained, lemma)]
  /\ UNCHANGED pipeline

InitP == PipelineIdle /\ (InitRow \/ InitItem)

NextP ==
  \/ \E payload \in Payloads : AttemptRow(payload)
  \/ CommitAttempts
  \/ \E extra \in {{}, {2}}, answer \in ItemAnswers, template \in FallbackTemplates,
        forced \in {{}, {1}, 1..3} :
       ProcessItem(extra, answer, template, forced)

SpecP == InitP /\ [][NextP]_vars

\* ------------------------------------------------- properties of the row gate
Committed == frame.fn = "row" /\ frame.at = "committed"

AcceptedCommit == Committed /\ frame.state.accepted

Keys(terms) == {lower(terms[i]) : i \in DOMAIN terms}

\* the synonym list of the accepted row against the two cleaned lists
MergedAsStated(merged, generated, existing) ==
  LET g == Min(Len(generated), Len(merged))
  IN /\ Len(merged) >= 1
     /\ Len(merged) <= MAX_SYNONYMS
     /\ \A i, j \in DOMAIN merged : lower(merged[i]) = lower(merged[j]) => i = j
     /\ SubSeq(merged, 1, g) = SubSeq(generated, 1, g)
     /\ \A i \in (g + 1)..Len(merged) :
          /\ merged[i] \in SeqToSet(existing)
          /\ lower(merged[i]) \notin Keys(generated)
     /\ \A i, j \in (g + 1)..Len(merged) :
          i < j => FirstIndex(existing, merged[i]) < FirstIndex(existing, merged[j])
     /\ Len(merged) < MAX_SYNONYMS => Keys(generated) \cup Keys(existing) \subseteq Keys(merged)

\* C21: a row whose synonym list had an entry that survives the cleaner has
\* a non-empty synonym list after its commit, accepted or exhausted; the list
\* of an accepted row has 1 to 6 entries, the cleaned generated synonyms
\* before the cleaned existing ones, and no two entries equal ignoring case.
C21_SynonymsKept ==
  /\ (Committed /\ row_prompt_context(frame.original[1]) # <<>>) => frame.row.synonym # <<>>
  /\ AcceptedCommit =>
       MergedAsStated(frame.row.synonym,
                      clean_synonyms_conservative(frame.last[1].payload.synonyms,
                                                  frame.original[1].lemma_term,
                                                  frame.original[1].pos, MAX_SYNONYMS),
                      row_prompt_context(frame.original[1]))

\* an accepted row was committed with six synonyms, the last one an existing
\* synonym, while another existing synonym did not fit
C21_Witness ==
  /\ AcceptedCommit
  /\ Len(frame.row.synonym) = MAX_SYNONYMS
  /\ frame.row.synonym[MAX_SYNONYMS] \in SeqToSet(row_prompt_context(frame.original[1]))
  /\ Keys(row_prompt_context(frame.original[1])) \ Keys(frame.row.synonym) # {}

\* an exhausted row with a surviving synonym was committed
C21_WitnessExhausted ==
  /\ Committed
  /\ ~frame.state.accepted
  /\ row_prompt_context(frame.original[1]) # <<>>

\* --------------------------------------------------- properties of written rows
Returned == frame.fn \in {"process_item", "apply_deterministic_fix"} /\ frame.at = "returned"

\* C22: a row whose sentences were written, by the commit of an accepted
\* candidate or by process_item or apply_deterministic_fix, has exactly three
\* sentence entries, and the cloze_index of each entry is find_cloze_index of
\* the entry's text and the row's lemma.
C22_ClozeIndexes ==
  (AcceptedCommit \/ Returned) =>
    /\ Len(frame.row.sentences) = 3
    /\ \A i \in 1..3 :
         text_find_cloze_index(frame.row.sentences[i].text, frame.row.lemma)
           = <<frame.row.sentences[i].cloze_index>>

\* an accepted row was committed whose third sentence opens with a quotation
\* mark, so that the lemma is the second token and the first word
C22_Witness ==
  /\ AcceptedCommit
  /\ frame.row.sentences[3].text = S3
  /\ frame.row.sentences[3].cloze_index = 1

\* process_item returned a row with a kept sentence, a rewritten sentence and
\* a forced template
C22_WitnessItem ==
  /\ Returned
  /\ frame.fn = "process_item"
  /\ frame.row.sentences[1].text = noun_complex_template(Lemma)
  /\ frame.row.sentences[2].text = S2
  /\ frame.row.sentences[3].text = S4
  /\ frame.original_texts[3] = S7

\* the number of word-like tokens of a text, and whether it holds the lemma
words_in(text) == wordlike_count(tokenize(text))

holds_lemma(text, lemma) == text_find_cloze_index(text, lemma) # <<>>

\* C23: in the in-place pipeline a sentence that holds the lemma token and
\* has 8 to 25 word-like tokens gets no length reason and is not rewritten
\* for its length, and the final loop does not report it as invalid.
C23_LengthWindow ==
  Returned =>
    \A i \in 1..3 :
      /\ (holds_lemma(frame.original_texts[i], frame.row.lemma)
            /\ words_in(frame.original_texts[i]) \in 8..25)
           => frame.local_reasons[i] = <<>>
      /\ (holds_lemma(frame.row.sentences[i].text, frame.row.lemma)
            /\ words_in(frame.row.sentences[i].text) \in 8..25)
           => \A k \in DOMAIN frame.errors :
                ~(frame.errors[k][1] = "final_sentence_invalid" /\ frame.errors[k][2] = i - 1)

\* ---------------------------------------------------------------------------
\* The text functions called on their own: validate_set, find_cloze_index,
\* validate_sentence_set_quality, violates_global_skeleton_cap.
\* ---------------------------------------------------------------------------
\* validate_set on texts
text_validate_set(texts) ==
  validate_set([i \in Indices |-> diversity_signature(texts[i + 1])])

\* short sentences: without words, with the same and with different first
\* words, terminals, question marks, quotation marks and clause markers
SetTexts ==
  { <<>>, <<"?">>, <<"!">>, <<".">>,
    <<"a", " ", "b", ".">>, <<"A", " ", "c", "?">>, <<"a", "?">>, <<"b", " ", "a", "!">>,
    <<"i", "f", " ", "a", ".">>, <<"\"", "a", "\"", " ", "b", ".">> }

InitValidateSet ==
  \E texts \in [1..3 -> SetTexts] :
    frame = [fn |-> "validate_set", at |-> "called", texts |-> texts,
             ok |-> FALSE, reasons |-> {}]

CallValidateSet ==
  /\ frame.fn = "validate_set"
  /\ frame.at = "called"
  /\ frame' = [frame EXCEPT !.at = "returned",
                            !.reasons = text_validate_set(frame.texts),
                            !.ok = text_validate_set(frame.texts) = {}]
  /\ UNCHANGED pipeline

\* short sentences around the lemma: pairs that differ only by the last
\* mark, of ten and of four characters, and a third sentence with the same
\* first word, terminal and flags
Q1 == <<"a", " ", "b", " ", "c", " ", "d", " ", "w", ".">>
Q1x == <<"a", " ", "b", " ", "c", " ", "d", " ", "w", "!">>
Q2 == <<"w", " ", "a", ".">>
Q2x == <<"w", " ", "a", "!">>
Q3 == <<"a", " ", "w", " ", "c", ".">>
QualityTexts == {Q1, Q1x, Q2, Q2x, Q3, S1, S2, S3}

InitQuality ==
  \E n \in 2..4 : \E sentences \in [1..n -> QualityTexts] :
    /\ n # 3 => \A i \in 1..n : sentences[i] = Q1
    /\ frame = [fn |-> "validate_sentence_set_quality", at |-> "called",
                sentences |-> sentences, lemma |-> Lemma,
                near_dup_threshold |-> near_dup_threshold_pct,
                ok |-> FALSE, reasons |-> <<>>]

CallQuality ==
  /\ frame.fn = "validate_sentence_set_quality"
  /\ frame.at = "called"
  /\ LET res == validate_sentence_set_quality(frame.sentences, frame.lemma,
                                              frame.near_dup_threshold)
     IN frame' = [frame EXCEPT !.at = "returned", !.ok = res.ok, !.reasons = res.reasons]
  /\ UNCHANGED pipeline

\* texts and lemmas for find_cloze_index: the lemma as a token after
\* punctuation, in another case, inside a longer word, before an apostrophe,
\* twice, and not at all; lemmas with blanks around, empty, of two words
ClozeTexts ==
  { <<>>, <<"a", " ", "w", ".">>, <<"\"", "W", "\"", " ", "w">>, <<"w", "a", " ", "a", "w">>,
    <<"w", "'", "s", " ", "a">>, <<"a", ",", " ", "w", " ", "a">>, <<"a", " ", "b">>,
    <<"w", "a", " ", "w", "'", "s", ",", " ", "W", "!">>, <<"w", "-", "a">> }
ClozeLemmas ==
  { <<>>, <<" ", " ">>, <<"w">>, <<" ", "W", " ">>, <<"w", " ", "a">>, <<"w", "a">>,
    <<",">>, <<"w", "-", "a">> }

InitCloze ==
  \E text \in ClozeTexts, lemma \in ClozeLemmas :
    frame = [fn |-> "find_cloze_index", at |-> "called", text |-> text, lemma |-> lemma,
             result |-> <<>>]

CallCloze ==
  /\ frame.fn = "find_cloze_index"
  /\ frame.at = "called"
  /\ frame' = [frame EXCEPT !.at = "returned",
                            !.result = text_find_cloze_index(frame.text, frame.lemma)]
  /\ UNCHANGED pipeline

\* sentences for the skeleton cap: two with the same skeleton, two more
CapTexts == {Q1, <<"a", " ", "b", " ", "c", " ", "d", " ", "W", ".">>, Q2, Q3}
CapSkeletons == {sentence_skeleton(t, Lemma) : t \in CapTexts}

\* violates_global_skeleton_cap on sentences
text_violates_global_skeleton_cap(sentences, lemma, counter, cap) ==
  violates_global_skeleton_cap(candidate_skeletons(sentences, lemma), counter, cap)

InitCap ==
  \E sentences \in [1..3 -> CapTexts], counter \in [CapSkeletons -> 0..2], cap \in 0..2 :
    frame = [fn |-> "violates_global_skeleton_cap", at |-> "called",
             sentences |-> sentences, lemma |-> Lemma, counter |-> counter, cap |-> cap,
             result |-> <<>>]

CallCap ==
  /\ frame.fn = "violates_global_skeleton_cap"
  /\ frame.at = "called"
  /\ frame' = [frame EXCEPT
                 !.at = "returned",
                 !.result = <<text_violates_global_skeleton_cap(frame.sentences, frame.lemma,
                                                                frame.counter, frame.cap)>>]
  /\ UNCHANGED pipeline

\* the short sentences of validate_set, and two with blanks that
\* normalize_text removes
VarietyTexts ==
  SetTexts \cup { <<" ", "a", " ", " ", "b", ".">>, <<"b", " ", "c", ".", " ">> }

\* validate_set and validate_sentence_set_quality on the same three sentences
InitSetValidators ==
  \E texts \in [1..3 -> VarietyTexts] :
    frame = [fn |-> "set_validators", at |-> "called", texts |-> texts, lemma |-> Lemma,
             strict |-> {}, soft |-> <<>>]

CallSetValidators ==
  /\ frame.fn = "set_validators"
  /\ frame.at = "called"
  /\ frame' = [frame EXCEPT
                 !.at = "returned",
                 !.strict = text_validate_set(frame.texts),
                 !.soft = validate_sentence_set_quality(frame.texts, frame.lemma,
                                                        near_dup_threshold_pct).reasons]
  /\ UNCHANGED pipeline

InitT ==
  /\ PipelineIdle
  /\ \/ InitValidateSet
     \/ InitQuality
     \/ InitCloze
     \/ InitCap
     \/ InitSetValidators

NextT ==
  \/ CallValidateSet
  \/ CallQuality
  \/ CallCloze
  \/ CallCap
  \/ CallSetValidators

SpecT == InitT /\ [][NextT]_vars

\* -------------------------------------------- properties of the text functions
ReturnedFrom(fn) == frame.fn = fn /\ frame.at = "returned"

\* C24: validate_set on three sentences reports set_all_same_start_token
\* exactly when the three lowercased first word-like tokens are identical and
\* non-empty, set_all_same_punctuation_pattern exactly when the three
\* punctuation patterns are identical, set_missing_question_or_dialogue_or_complex
\* exactly when no sentence has a question mark, a quote character or a
\* complex-clause marker; ok is true exactly when no reason is reported.
C24_ValidateSet ==
  ReturnedFrom("validate_set") =>
    LET sig == [i \in 1..3 |-> diversity_signature(frame.texts[i])]
        start == [i \in 1..3 |-> first_word(frame.texts[i])]
    IN /\ "set_all_same_start_token" \in frame.reasons
            <=> (start[1] # <<>> /\ start[1] = start[2] /\ start[2] = start[3])
       /\ "set_all_same_punctuation_pattern" \in frame.reasons
            <=> (/\ punctuation_pattern(sig[1]) = punctuation_pattern(sig[2])
                 /\ punctuation_pattern(sig[2]) = punctuation_pattern(sig[3]))
       /\ "set_missing_question_or_dialogue_or_complex" \in frame.reasons
            <=> \A i \in 1..3 : ~(sig[i].has_question \/ sig[i].has_quote
                                  \/ sig[i].has_complex_clause)
       /\ frame.ok <=> frame.reasons = {}

\* the place of a reason code in the order of sorted()
code_order(code) == CHOOSE k \in DOMAIN ReasonCodes : ReasonCodes[k] = code

is_mark(c) == ~is_word_char(c) /\ ~is_space(c)

\* two texts that differ only by their trailing punctuation mark
differ_by_trailing_mark(a, b) ==
  /\ Len(a) = Len(b)
  /\ Len(a) >= 2
  /\ SubSeq(a, 1, Len(a) - 1) = SubSeq(b, 1, Len(b) - 1)
  /\ a[Len(a)] # b[Len(b)]
  /\ is_mark(a[Len(a)]) /\ is_mark(b[Len(b)])

\* the statement on validate_sentence_set_quality, the near-duplicate part
\* for pairs of at least min_chars characters
set_quality_as_stated(min_chars) ==
  ReturnedFrom("validate_sentence_set_quality") =>
    LET s == frame.sentences
        reasons == frame.reasons
    IN /\ Len(s) # 3 => (reasons = <<"invalid_sentence_count">> /\ ~frame.ok)
       /\ Len(s) = 3 =>
            /\ \A i, j \in 1..3 :
                 (differ_by_trailing_mark(s[i], s[j]) /\ Len(s[i]) >= min_chars)
                   => "near_duplicate_sentences" \in SeqToSet(reasons)
            /\ "insufficient_set_variety" \in SeqToSet(reasons)
                 <=> /\ \A i, j \in 1..3 : first_word(s[i]) = first_word(s[j])
                     /\ \A i, j \in 1..3 : sentence_terminal(s[i]) = sentence_terminal(s[j])
                     /\ \A i, j \in 1..3 :
                          /\ diversity_signature(s[i]).has_question
                               = diversity_signature(s[j]).has_question
                          /\ diversity_signature(s[i]).has_quote
                               = diversity_signature(s[j]).has_quote
                          /\ diversity_signature(s[i]).has_complex_clause
                               = diversity_signature(s[j]).has_complex_clause
       /\ \A i, j \in DOMAIN reasons : i < j => code_order(reasons[i]) < code_order(reasons[j])
       /\ frame.ok <=> reasons = <<>>

\* C25: validate_sentence_set_quality rejects an input that does not have
\* exactly 3 sentences with the single reason invalid_sentence_count; for 3
\* sentences it reports near_duplicate_sentences whenever two of them of at
\* least ten characters differ only by their trailing punctuation mark (the
\* threshold being 0.9), and insufficient_set_variety exactly when the three
\* have the same first word, terminal token and (question, quote, complex)
\* flags; the reasons are sorted and without duplicates, ok exactly when
\* there are none.
C25_SetQuality == set_quality_as_stated(10)

\* the same for two sentences of any length that differ only by their
\* trailing punctuation mark
C25_AsStated == set_quality_as_stated(0)

\* two sentences of ten characters that differ by the last mark were
\* reported as near duplicates, after a reason that sorts behind it
C25_Witness ==
  /\ ReturnedFrom("validate_sentence_set_quality")
  /\ frame.sentences = <<Q1, Q1x, S2>>
  /\ "near_duplicate_sentences" \in SeqToSet(frame.reasons)
  /\ "sentence_0_word_count_lt_8" \in SeqToSet(frame.reasons)

\* an input of two sentences was rejected
C25_WitnessCount ==
  /\ ReturnedFrom("validate_sentence_set_quality")
  /\ Len(frame.sentences) = 2
  /\ ~frame.ok

\* three valid sentences were accepted
C25_WitnessOk ==
  /\ ReturnedFrom("validate_sentence_set_quality")
  /\ frame.ok

\* C26: find_cloze_index returns the zero-based index, among all tokens of
\* tokenize(text) with the punctuation tokens counted, of the first token
\* equal to the trimmed lemma ignoring case, and none when no token matches
\* or the lemma is empty; a token that only contains the lemma, or several
\* tokens that spell it together, are never a match.
C26_FindClozeIndex ==
  ReturnedFrom("find_cloze_index") =>
    LET toks == tokenize(frame.text)
        target == text_lower(strip(frame.lemma))
        equal(k) == text_lower(toks[k]) = target
    IN IF target = <<>> \/ ~\E k \in DOMAIN toks : equal(k)
       THEN frame.result = <<>>
       ELSE /\ Len(frame.result) = 1
            /\ frame.result[1] + 1 \in DOMAIN toks
            /\ equal(frame.result[1] + 1)
            /\ Len(toks[frame.result[1] + 1]) = Len(target)
            /\ \A k \in 1..frame.result[1] : ~equal(k)

\* the lemma was found as the last token, behind a word that contains it, a
\* possessive and a comma
C26_Witness ==
  /\ ReturnedFrom("find_cloze_index")
  /\ frame.text = <<"w", "a", " ", "w", "'", "s", ",", " ", "W", "!">>
  /\ frame.lemma = <<" ", "W", " ">>
  /\ frame.result = <<3>>

\* a lemma of two words was not found in a text that holds both words
C26_WitnessNone ==
  /\ ReturnedFrom("find_cloze_index")
  /\ frame.text = <<"a", ",", " ", "w", " ", "a">>
  /\ frame.lemma = <<"w", " ", "a">>
  /\ frame.result = <<>>

\* ------------------------------------------ properties: the fallback threshold
\* the sentences process_item stored with a "changed" record
recorded_sentences(rec) == IF rec.fallback_count > 0 THEN "fb" ELSE "new"

LastRecordI(i) ==
  \A j \in DOMAIN checkpoint : checkpoint[j].id = checkpoint[i].id => j <= i

\* the partial snapshot holds what this run's records stand for
SnapshotHoldsRecords ==
  /\ partial_seed.exists
  /\ \A i \in (ledger_at_start + 1)..Len(checkpoint) :
       (checkpoint[i].changed /\ LastRecordI(i))
         => /\ checkpoint[i].id \in RowIds(partial_seed.data)
            /\ RowById(partial_seed.data, checkpoint[i].id).sentences
                 = recorded_sentences(checkpoint[i])

\* a step that leaves a completed item whose fallback ratio is over the
\* threshold ends the run with code 3 or handles the rest of the window,
\* unless the process is killed
StopStep ==
  (pc = "ip_item" /\ fallback_stop(total_rewritten_total, total_fallback_total,
                                   args.fallback_stop_pct))
    => \/ pc' = "idle" /\ exit_code' = "3"
       \/ args.workers > 1 /\ pc' = "ip_pool" /\ stop_code_window' = "3"
       \/ pc' = "idle" /\ exit_code' = "crash"

\* C27: in the in-place pipeline, when the cumulative ratio of fallback
\* rewrites to rewritten sentences exceeds fallback_stop_pct after an item,
\* the run stops with exit code 3 without starting a further window, and when
\* it has exited with code 3 the partial snapshot holds the committed content
\* of every row with a checkpoint record, with one worker and with several.
C27_FallbackStop ==
  /\ [][StopStep]_vars
  /\ [](stop_code_window = "3" => pc \in {"ip_pool", "ip_item"})
  /\ []((pc = "idle" /\ exit_code = "3") => SnapshotHoldsRecords)

\* ------------------------------------------ properties: the counter at commit
\* how often skeleton s occurs among the sentences of the row
SkeletonCount(row, s) == Cardinality({k \in 1..3 : RowSkeletons(row)[k] = s})

BatchCommitted == pc = "commit" /\ ci > Len(batch_ids)

\* C28: while the candidates of a batch are validated, accepted or rejected,
\* the skeleton counter and the rows stay as they are; the counter is
\* increased only by the commit of an accepted row, once for each of the
\* three skeletons of the row as committed (and by the seeding at the start
\* of a run); after the commit of a batch the counter is its value before
\* the batch plus the skeletons of the rows accepted in the batch.
C28_CounterAtCommit ==
  /\ [][(pc \in {"wave", "pool"} /\ pc' # "idle")
          => (skeleton_counter' = skeleton_counter /\ rows' = rows)]_vars
  /\ [][(\E s \in Skeletons : skeleton_counter'[s] > skeleton_counter[s])
          => \/ pc = "exclude"
             \/ /\ pc = "commit"
                /\ ci <= Len(batch_ids)
                /\ states[batch_ids[ci]].accepted
                /\ \A s \in Skeletons :
                     skeleton_counter'[s]
                       = skeleton_counter[s] + SkeletonCount(RowById(rows', batch_ids[ci]), s)]_vars
  /\ [](BatchCommitted =>
          \A s \in Skeletons :
            skeleton_counter[s]
              = counter_at_batch[s]
                + Cardinality({p \in (DOMAIN batch_ids) \X (1..3) :
                                 /\ states[batch_ids[p[1]]].accepted
                                 /\ RowSkeletons(RowById(rows, batch_ids[p[1]]))[p[2]] = s}))

\* a batch was committed in which a row had one candidate rejected by
\* process_candidate and the next one accepted
C28_Witness ==
  /\ BatchCommitted
  /\ \E b \in SeqToSet(batch_ids) :
       /\ states[b].accepted
       /\ \E k \in DOMAIN states[b].error_codes :
            states[b].error_codes[k][3] = "global_skeleton_cap_exceeded"
       /\ RowById(rows, b) # RowById(rows_at_start, b)
  /\ skeleton_counter # counter_at_batch

\* a batch was committed in which every candidate of a row was rejected or
\* missing, one of them by process_candidate
C28_WitnessRejected ==
  /\ BatchCommitted
  /\ \E b \in SeqToSet(batch_ids) :
       /\ ~states[b].accepted
       /\ \E k \in DOMAIN states[b].error_codes :
            states[b].error_codes[k][3] = "global_skeleton_cap_exceeded"
       /\ RowById(rows, b) = RowById(rows_at_start, b)
  /\ skeleton_counter = counter_at_batch

\* the statement on violates_global_skeleton_cap, the part on fresh
\* skeletons for caps of at least min_cap
skeleton_cap_as_stated(min_cap) ==
  ReturnedFrom("violates_global_skeleton_cap") =>
    LET sk == [i \in 1..3 |-> sentence_skeleton(frame.sentences[i], frame.lemma)]
        over == {i \in 1..3 : frame.counter[sk[i]] + 1 > frame.cap}
        res == frame.result[1]
    IN /\ res.violates <=> over # {}
       /\ Len(res.offenders) = Cardinality(over)
       /\ SeqToSet(res.offenders) = {sk[i] : i \in over}
       /\ (frame.cap >= min_cap /\ \A i \in 1..3 : frame.counter[sk[i]] = 0) => ~res.violates
       /\ (\E i \in 1..3 : frame.counter[sk[i]] = frame.cap) => res.violates

\* C29: violates_global_skeleton_cap reports a violation exactly when a
\* candidate sentence has a skeleton s with counter[s] + 1 > cap, and its
\* offenders are exactly those skeletons; for a cap of at least 1 a
\* candidate whose skeletons all have count 0 is no violation whatever the
\* other counts are; a candidate with a skeleton whose count equals the cap
\* is a violation.
C29_SkeletonCap == skeleton_cap_as_stated(1)

\* the same with the part on fresh skeletons for any cap
C29_AsStated == skeleton_cap_as_stated(0)

\* a candidate with fresh skeletons passed while another skeleton was over
\* the cap
C29_Witness ==
  /\ ReturnedFrom("violates_global_skeleton_cap")
  /\ frame.cap = 1
  /\ \A i \in 1..3 : frame.counter[sentence_skeleton(frame.sentences[i], frame.lemma)] = 0
  /\ \E s \in CapSkeletons : frame.counter[s] = 2
  /\ ~frame.result[1].violates

\* a candidate was rejected for one skeleton whose count equals the cap
C29_WitnessAtCap ==
  /\ ReturnedFrom("violates_global_skeleton_cap")
  /\ frame.cap = 2
  /\ frame.result[1].violates
  /\ Len(frame.result[1].offenders) = 1
  /\ frame.counter[frame.result[1].offenders[1]] = 2

\* ------------------------------------------- properties: the order of the gate
Attempted == frame.fn = "row" /\ frame.at = "attempts" /\ frame.last # <<>>

\* the check an error code belongs to: 1 set quality, 2 blocklist,
\* 3 skeleton cap, 4 synonym merge, 5 cloze
check_of(code) ==
  CASE code[1] = "blocked" -> 2
    [] code[1] \in {"global_skeleton_cap_exceeded", "skeleton_cap"} -> 3
    [] code[1] = "synonyms_empty_after_cleanup" -> 4
    [] code[1] = "cloze_missing" -> 5
    [] OTHER -> 1

\* the checks that fail on the candidate, each taken on its own
failing_checks(row, payload, counter, cap) ==
  LET lemma == normalize_text(row.lemma)
      s == payload.sentences
  IN (IF ~set_quality[s].ok THEN {1} ELSE {})
     \cup (IF \E i \in DOMAIN s : is_text_blocked(s[i]) THEN {2} ELSE {})
     \cup (IF \E i \in DOMAIN s : counter[sentence_skeleton(s[i], lemma)] + 1 > cap
             THEN {3} ELSE {})
     \cup (IF merge_synonyms(payload.synonyms, row_prompt_context(row), row.lemma_term,
                             row.pos) = <<>> THEN {4} ELSE {})
     \cup (IF \E i \in DOMAIN s : text_find_cloze_index(s[i], lemma) = <<>> THEN {5} ELSE {})

Texts(entries) == [i \in DOMAIN entries |-> entries[i].text]

\* C30: process_candidate applies its checks in the order set quality,
\* blocklist, skeleton cap, synonym merge, cloze, and stops at the first one
\* that fails: it then returns the row it was given with the error codes of
\* that check only; when no check fails the returned row differs from the
\* given one in the sentences and the synonyms only, and its three sentences
\* are the three of the candidate, so that a committed row holds the
\* sentences of one candidate and no old sentence.
C30_GateOrder ==
  /\ Attempted =>
       LET payload == frame.last[1].payload
           res == frame.last[1].result
           failing == failing_checks(frame.row, payload, frame.skeleton_counter,
                                     frame.global_skeleton_cap)
       IN /\ res.ok <=> failing = {}
          /\ ~res.ok =>
               /\ res.updated = frame.row
               /\ res.error_codes # <<>>
               /\ \A k \in DOMAIN res.error_codes :
                    /\ check_of(res.error_codes[k]) \in failing
                    /\ \A c \in failing : check_of(res.error_codes[k]) <= c
          /\ res.ok =>
               /\ Len(res.updated.sentences) = 3
               /\ Texts(res.updated.sentences) = payload.sentences
               /\ [res.updated EXCEPT !.sentences = frame.row.sentences,
                                      !.synonym = frame.row.synonym] = frame.row
  /\ AcceptedCommit =>
       /\ Texts(frame.row.sentences) = frame.last[1].payload.sentences
       /\ \A i \in 1..3 : frame.row.sentences[i].text
                            \notin SeqToSet(Texts(frame.original[1].sentences))

\* a candidate with a blocked sentence and a skeleton over the cap was
\* rejected
C30_Witness ==
  /\ Attempted
  /\ ~frame.last[1].result.ok
  /\ {2, 3} \subseteq failing_checks(frame.row, frame.last[1].payload, frame.skeleton_counter,
                                     frame.global_skeleton_cap)

\* a candidate over the cap and without a synonym that survives was rejected
C30_WitnessCap ==
  /\ Attempted
  /\ failing_checks(frame.row, frame.last[1].payload, frame.skeleton_counter,
                    frame.global_skeleton_cap) = {3, 4}

\* the second candidate of a row was accepted and committed after the first
\* one was rejected
C30_WitnessCommit ==
  /\ AcceptedCommit
  /\ frame.state.attempts = 2
  /\ frame.state.error_codes # <<>>

\* ------------------------------- properties of enforce_sentence_generation
\* C31: whenever enforce_sentence_generation returns, in the deterministic and
\* in the generating mode and on every path, the returned sentence passes
\* validate_sentence for the lemma and shows the requested style, and at most
\* MAX_GENERATION_RETRIES generator calls were made.
C31_EnforceReturns ==
  (frame.fn = "enforce_sentence_generation" /\ frame.at = "returned") =>
     /\ IsText(frame.result)
     /\ validate_sentence(frame.result, frame.lemma)
     /\ sentence_matches_style(frame.result, frame.style)
     /\ frame.calls <= MAX_GENERATION_RETRIES
     /\ frame.deterministic => frame.calls = 0

\* ------------------------------------------ properties: no row stops the run
BatchPcs == {"batch", "wave", "pool", "commit"}

\* the run has appended a changed or an unchanged_failed_generation record
RowOutcome(id) ==
  \E i \in (ledger_at_start + 1)..Len(checkpoint) :
    /\ checkpoint[i].id = id
    /\ checkpoint[i].status \in {"changed", "unchanged_failed_generation"}

\* the answer k of the row passes the gate against the counter of the batch
OwnAccepted(id, k) ==
  /\ hist[id][k] \notin {"err", "missing"}
  /\ process_candidate(rows[id_to_index(rows, id)], hist[id][k], counter_at_batch,
                       args.global_skeleton_cap).ok

\* between the waves and at the head of the commit loop the state of a row is
\* a function of its own answers and of the counter of the batch
OwnOutcome ==
  (pc = "wave" \/ (pc = "commit" /\ ci = 1)) =>
     \A id \in DOMAIN states :
        /\ states[id].accepted <=> \E k \in DOMAIN hist[id] : OwnAccepted(id, k)
        /\ \A k \in DOMAIN hist[id] : OwnAccepted(id, k) => k = Len(hist[id])
        /\ (pc = "commit" /\ ~states[id].accepted) =>
              Len(hist[id]) = args.local_retries + args.cloud_retries
        /\ states[id].local_attempts + states[id].cloud_attempts = Len(hist[id])

\* the batch loop is left only when it is over, or when the process is killed
BatchLoopRuns ==
  pc \in BatchPcs =>
     \/ pc' \in BatchPcs
     \/ pc' = "final" /\ \A id \in SeqToSet(pending_ids) : RowOutcome(id)
     \/ pc' = "idle" /\ exit_code' = "crash"

\* C32: while every generator call returns or raises, every pending row of
\* the stochastic pipeline reaches a changed or unchanged_failed_generation
\* record, whatever the generators answer: an exception or a rejected
\* candidate never ends the run nor keeps later rows and batches from being
\* processed, and the outcome of a row depends on its own answers and on the
\* skeleton counter only.
C32_EveryRowCommitted ==
  /\ []OwnOutcome
  /\ [][BatchLoopRuns]_vars
  /\ \A id \in 1..(NRows + 1) :
       (pc \in BatchPcs /\ id \in SeqToSet(pending_ids)) ~> (RowOutcome(id) \/ pc = "idle")

\* a run ended its batch loop after a row used up its attempts on generator
\* errors and a later row was changed
C32_Witness ==
  /\ pc = "final"
  /\ \E i, j \in (ledger_at_start + 1)..Len(checkpoint) :
       /\ i < j
       /\ checkpoint[i].status = "unchanged_failed_generation"
       /\ checkpoint[j].status = "changed"

\* ------------------------------------------------- properties of the ledger
\* the ledger before the step is a prefix of the ledger after it
LedgerGrows ==
  /\ Len(checkpoint') >= Len(checkpoint)
  /\ SubSeq(checkpoint', 1, Len(checkpoint)) = checkpoint

\* the lines of a ledger that carry the integer id
LinesOf(ledger, id) == {i \in DOMAIN ledger : ledger[i] # BlankLine /\ ledger[i].id = id}

\* C33: no step of either pipeline removes, reorders or rewrites a line of the
\* ledger: the ledger before a step is a prefix of the ledger after it;
\* read_checkpoint returns, for every integer id that has a line, its last
\* line, and nothing for the lines without an integer id.
C33_LedgerAppendOnly ==
  /\ [][LedgerGrows]_vars
  /\ [](ReturnedFrom("read_checkpoint") =>
          /\ DOMAIN frame.result =
               {id \in {NotInt, 1, 2} : IsInt(id) /\ LinesOf(frame.ledger, id) # {}}
          /\ \A id \in DOMAIN frame.result :
               \E i \in LinesOf(frame.ledger, id) :
                 /\ frame.result[id] = frame.ledger[i]
                 /\ \A j \in LinesOf(frame.ledger, id) : j <= i)

\* read_checkpoint returned the later of two different lines of an id, from
\* a ledger that also holds a line without an integer id
C33_Witness ==
  /\ ReturnedFrom("read_checkpoint")
  /\ \E i, j \in DOMAIN frame.ledger :
       /\ i < j
       /\ frame.ledger[i] # BlankLine /\ frame.ledger[j] # BlankLine
       /\ frame.ledger[i].id = 1 /\ frame.ledger[j].id = 1
       /\ frame.ledger[i] # frame.ledger[j]
       /\ frame.result[1] = frame.ledger[j]
  /\ \E i \in DOMAIN frame.ledger : frame.ledger[i] # BlankLine /\ ~IsInt(frame.ledger[i].id)

\* a run of the in-place pipeline appended a second line for an id
C33_WitnessSecondLine ==
  /\ InPlaceRun
  /\ \E i, j \in DOMAIN checkpoint : i < j /\ checkpoint[i].id = checkpoint[j].id

\* ------------------------------------------- properties of the pending list
LastPos(rs, id) == CHOOSE i \in DOMAIN rs : rs[i].id = id /\ \A j \in DOMAIN rs : rs[j].id = id => j <= i

\* list holds, each once and in the order of their rows, the integer ids of
\* rs that are not in processed
IsPendingList(list, rs, processed) ==
  /\ SeqToSet(list) = {id \in RowIds(rs) : IsInt(id) /\ id \notin processed}
  /\ \A a, b \in DOMAIN list : a < b => LastPos(rs, list[a]) < LastPos(rs, list[b])

\* list is cut to the first n entries of full
IsCut(list, full, n) == list = [k \in 1..(IF n < Len(full) THEN n ELSE Len(full)) |-> full[k]]

\* the ids that were processed when the run computed its pending list
ProcessedAtStart ==
  IF InPlaceRun THEN OldIds
  ELSE OldIds \cup {NewRecords[i].id : i \in {j \in DOMAIN NewRecords :
                                                NewRecords[j].status = "excluded_sensitive"}}

PendingAsStated(min_limit) ==
  /\ ReturnedFrom("pending_ids") =>
       LET full == pending_ids_of(frame.rows, frame.processed_ids, <<>>)
       IN /\ IsPendingList(full, frame.rows, frame.processed_ids)
          /\ frame.limit = <<>> => frame.result = full
          /\ (frame.limit # <<>> /\ frame.limit[1] >= min_limit) =>
                IsCut(frame.result, full, frame.limit[1])
  /\ (frame = NoFrame /\ pc \in {"batch", "wave", "pool", "commit", "ip_serial", "ip_window",
                                 "ip_pool", "ip_item"}) =>
       \E full \in {pending_ids_of(rows, ProcessedAtStart, <<>>)} :
          /\ IsPendingList(full, rows, ProcessedAtStart)
          /\ IF args.limit = 0 THEN pending_ids = full
             ELSE IsCut(pending_ids, full, args.limit)
  /\ (frame = NoFrame /\ pc \in {"wave", "pool", "commit"}) =>
       /\ batch_ids = [k \in 1..Min(args.batch_size, Len(pending_ids) - cursor + 1) |->
                         pending_ids[cursor + k - 1]]
       /\ \A i, j \in DOMAIN CommitRecords :
            i < j => LastPos(rows, CommitRecords[i].id) < LastPos(rows, CommitRecords[j].id)
       /\ \A i \in DOMAIN CommitRecords :
            \A k \in (IF pc = "commit" THEN ci ELSE 1)..Len(batch_ids) :
              LastPos(rows, CommitRecords[i].id) < LastPos(rows, batch_ids[k])

\* C34: in both pipelines the pending list of a run is the integer row ids
\* of the loaded rows that are not in the ledger, in the order of their rows,
\* cut to its first limit entries when a limit of at least 0 is given; the
\* batches are consecutive slices of it and the rows are committed in the
\* order of their positions in the row array.
C34_PendingList == PendingAsStated(0)

\* the same for every limit, negative ones included
C34_AsStated == PendingAsStated(-1)

\* the pending list of rows with a repeated id, cut by a limit
C34_Witness ==
  /\ ReturnedFrom("pending_ids")
  /\ \E i, j \in DOMAIN frame.rows : i < j /\ frame.rows[i].id = frame.rows[j].id
  /\ frame.limit = <<1>>
  /\ Len(frame.result) = 1
  /\ Len(pending_ids_of(frame.rows, frame.processed_ids, <<>>)) = 2

\* the pending list of rows with an id that is no integer and a processed id
C34_WitnessNotInt ==
  /\ ReturnedFrom("pending_ids")
  /\ \E i \in DOMAIN frame.rows : ~IsInt(frame.rows[i].id)
  /\ \E i \in DOMAIN frame.rows : frame.rows[i].id \in frame.processed_ids
  /\ frame.result # <<>>

\* the second batch of a run of the stochastic pipeline is being committed
C34_WitnessBatches ==
  /\ frame = NoFrame
  /\ pc = "commit"
  /\ cursor > 1
  /\ CommitRecords # <<>>

\* ------------------------------------------- properties of the exclusion
\* the ids of the rows of the pristine seed whose lemma is sensitive (the
\* pristine seed is the canonical seed, or its backup once it was replaced)
SensitiveIds ==
  {r.id : r \in {x \in SeqToSet(input_seed.data) \cup SeqToSet(seed_backup.data) \cup
                        SeqToSet(rows_at_start) : x.sens}}

RecordsOf(id) == SelectSeq(checkpoint, LAMBDA r : r.id = id)

\* some run has passed the exclusion loop
Excluded == pc \notin {"idle", "exclude"} \/ checkpoint # <<>>

\* C35: a row with a sensitive lemma is never pending, never in a batch and
\* never submitted to a generator; no partial snapshot and no output seed
\* holds a row with a sensitive lemma; over all the runs that share the ledger it has at most one
\* record, which is an excluded_sensitive record with zero attempts, and it
\* has that record once a run has passed the exclusion loop.
C35_SensitiveExcluded ==
  (~InPlaceRun) =>
    \A id \in SensitiveIds :
      /\ id \notin SeqToSet(pending_ids) \cup SeqToSet(batch_ids) \cup running \cup DOMAIN hist
      /\ id \notin SeqToSet(unresolved) \cup DOMAIN states
      /\ \A r \in SeqToSet(partial_seed.data) \cup SeqToSet(output_seed.data) : ~r.sens
      /\ pc \notin {"idle", "exclude"} => \A r \in SeqToSet(rows) : ~r.sens
      /\ Len(RecordsOf(id)) <= 1
      /\ \A i \in DOMAIN RecordsOf(id) :
           /\ RecordsOf(id)[i].status = "excluded_sensitive"
           /\ RecordsOf(id)[i].attempts_local = 0
           /\ RecordsOf(id)[i].attempts_cloud = 0
      /\ Excluded => Len(RecordsOf(id)) = 1

\* a second run resumes on the ledger that holds the record of the excluded
\* row next to the record of a processed row, and has passed its own
\* exclusion loop without writing a second record
C35_Witness ==
  /\ ~InPlaceRun
  /\ run_no = 2
  /\ pc \notin {"idle", "exclude"}
  /\ \E id \in SensitiveIds : id \in OldIds /\ Len(RecordsOf(id)) = 1
  /\ \E i \in DOMAIN checkpoint : checkpoint[i].status # "excluded_sensitive"

\* ------------------------------------------- properties of the two audits
\* C36: audit_rows gives the same verdict on the resequenced rows as on the
\* rows, and audit_roots finds no error in the remapped roots against the
\* resequenced rows, whatever the roots are; so the audits after the
\* resequencing pass whenever the first audit passed, and no run of the
\* stochastic pipeline ends with exit code 3.
C36_SecondAuditPasses ==
  /\ ReturnedFrom("final_audits") =>
       /\ audit_rows(resequence_rows(frame.rows).remapped, frame.cap)
            = audit_rows(frame.rows, frame.cap)
       /\ audit_roots(remap_roots_word_ids(frame.roots, resequence_rows(frame.rows).id_map),
                      resequence_rows(frame.rows).remapped)
       /\ frame.code # "3"
  /\ frame = NoFrame =>
       /\ exit_code # "3"
       /\ pc = "out_roots" => second_audits_ok

\* the first audit passes on rows with a repeated id and an id that is no
\* integer, and the roots hold a repeated word id and a word id of no row
C36_Witness ==
  /\ ReturnedFrom("final_audits")
  /\ frame.code = "staged"
  /\ \E i, j \in DOMAIN frame.rows : i < j /\ frame.rows[i].id = frame.rows[j].id
  /\ \E i, j \in DOMAIN frame.roots :
       frame.roots[i].word_ids = <<2, 2>> /\ frame.roots[j].word_ids = <<4, 2>>

\* the first audit fails on the skeleton cap, before and after the resequencing
C36_WitnessCap ==
  /\ ReturnedFrom("final_audits")
  /\ frame.code = "2"
  /\ \A i \in DOMAIN frame.rows : frame.rows[i].sentences = "A" /\ ~IsInt(frame.rows[i].id)
  /\ frame.rows # <<>>

\* a run of the pipeline has passed the second audits
C36_WitnessRun ==
  /\ frame = NoFrame
  /\ pc = "out_roots"
  /\ remapped_roots # input_roots.data

\* ------------------------------------------- properties of the gate and the audit
\* C37: a row committed with status changed passes audit_rows when it is
\* audited on its own with the threshold and the cap of the run.
C37_CommittedRowPassesAudit ==
  (frame.fn = "row" /\ frame.at = "committed" /\ frame.state.accepted) =>
     audit_row(frame.row, frame.global_skeleton_cap) = <<>>

\* ------------------------------------------- properties of the second cleaning
\* C39: clean_synonyms_conservative applied to its own result, with the same
\* lemma, pos and max_count, returns that result unchanged.
C39_CleaningIdempotent ==
  ReturnedFrom("clean_twice") => frame.twice = frame.once

\* ------------------------------------------- properties of the two set validators
\* C38: three sentences for which validate_set gives no reason are not
\* reported with insufficient_set_variety by validate_sentence_set_quality.
C38_StrictImpliesSoft ==
  (ReturnedFrom("set_validators") /\ frame.strict = {}) =>
     "insufficient_set_variety" \notin SeqToSet(frame.soft)

\* validate_set accepts three sentences, one of them with blanks around it,
\* that validate_sentence_set_quality rejects for other reasons
C38_Witness ==
  /\ ReturnedFrom("set_validators")
  /\ frame.strict = {}
  /\ frame.soft # <<>>
  /\ \E i \in 1..3 : normalize_text(frame.texts[i]) # frame.texts[i]

\* both validators reject three sentences for their lack of variety
C38_WitnessBoth ==
  /\ ReturnedFrom("set_validators")
  /\ "set_all_same_start_token" \in frame.strict
  /\ "insufficient_set_variety" \in SeqToSet(frame.soft)

\* ------------------------------------------- properties of compute_style_targets
StyleTargetsAsStated(f) ==
  LET rewrites == f.result.rewrite_indices
      style_targets == f.result.style_targets
  IN /\ DOMAIN style_targets = rewrites
     /\ \A i, j \in DOMAIN style_targets :
          (style_targets[i] = style_targets[j] /\ style_targets[i] # "contextual") => i = j
     /\ \A k \in DOMAIN STYLE_ORDER :
          (\A idx \in Indices \ rewrites : ~sentence_matches_style(f.texts[idx], STYLE_ORDER[k]))
            => \E idx \in DOMAIN style_targets : style_targets[idx] = STYLE_ORDER[k]

\* C40: when compute_style_targets is called with a non-empty rewrite set, the
\* keys of style_targets are the returned rewrite indices, none of the styles
\* question, dialogue and complex is the target of two indices, and every one
\* of them that no kept sentence shows is the target of some rewrite index.
C40_StyleTargets ==
  (ReturnedFrom("compute_style_targets") /\ frame.rewrite_indices # {}) =>
     StyleTargetsAsStated(frame)

====
